---- MODULE Spec2Model ----
(***************************************************************************)
(* Verification model of the triton frontend lowering layer:               *)
(*   - the function inliner (lib/codegen/transform/inline.cc)              *)
(*   - the semantic dispatcher (lib/ir/dispatch.cc, ast-typed revision)    *)
(***************************************************************************)
EXTENDS Integers, Sequences, FiniteSets, TLC

VARIABLES
  \* ---- inliner: the IR module and the state of inliner::run ----
  fnlist,       \* mod.get_function_list(): sequence of function names
  fnBlocks,     \* fn->blocks(): function name -> sequence of block ids
  blk,          \* block id -> [parent, name, insts]
  callsites,    \* std::map<function*, vector<call_inst*>>: callee -> call ids
  order,        \* address order of the function objects (std::map key order)
  pc,           \* position of inliner::run: "scan", "loop", "done", "off"
  cur,          \* key the outer loop of run is at
  idx,          \* index of the inner loop of run in callsites[cur]
  nextId,       \* next fresh instruction identity
  nextBlk,      \* next fresh block identity
  insertPoint,  \* builder insertion point (block id, 0 = unset)
  log,          \* one record per do_inline call: its local variables
  last,         \* the step run took last: "init", "scan", "inline", "remove"
  \* ---- dispatcher: one dispatched call and its outcome ----
  call,         \* the call: [op, a, b, flag, dst, bits]
  out,          \* its outcome: [err, msg, vals, em]
  \* ---- AST context: its two containers and the look-ups made on it ----
  ast_types_,   \* std::map<pair<ir::type*, signedness>, unique_ptr<type>>
  ast_values_,  \* std::vector<unique_ptr<ast::value>>
  lookups       \* one record per look-up: its arguments and the type returned

inlVars == <<fnlist, fnBlocks, blk, callsites, order, pc, cur, idx,
             nextId, nextBlk, insertPoint, log, last>>
dspVars == <<call, out>>
ctxVars == <<ast_types_, ast_values_, lookups>>
vars == <<fnlist, fnBlocks, blk, callsites, order, pc, cur, idx,
          nextId, nextBlk, insertPoint, log, last, call, out,
          ast_types_, ast_values_, lookups>>

(***************************************************************************)
(*                         Generic helpers                                 *)
(***************************************************************************)
Range(s) == {s[i] : i \in DOMAIN s}

RECURSIVE Flatten(_)
Flatten(ss) == IF ss = <<>> THEN <<>> ELSE Head(ss) \o Flatten(Tail(ss))

Front(s) == SubSeq(s, 1, Len(s) - 1)

Perms(S) == {p \in [1..Cardinality(S) -> S] : \A i, j \in DOMAIN p : p[i] = p[j] => i = j}

IndexOf(s, x) == CHOOSE i \in DOMAIN s : s[i] = x

(***************************************************************************)
(*                     IR objects used by the inliner                      *)
(***************************************************************************)
\* bounds of the module family
MaxCalls == 2

NoFn == "none"

\* ir::value references
VInst(n)     == [k |-> "inst",  fn |-> NoFn, n |-> n]
VArg(f, i)   == [k |-> "arg",   fn |-> f,    n |-> i]
VConst(c)    == [k |-> "const", fn |-> NoFn, n |-> c]

\* ir::instruction: operands, callee (call_inst), branch targets, and for a
\* phi the incoming blocks (its incoming values are its operands)
Inst(id, op, ops, callee, tgts) ==
  [id |-> id, op |-> op, ops |-> ops, callee |-> callee, tgts |-> tgts, inc |-> <<>>]

IsTerminator(i) == i.op \in {"br", "condbr", "ret"}

Block(parent, name, insts) == [parent |-> parent, name |-> name, insts |-> insts]

(***************************************************************************)
(*          The family of modules the inliner is run on (acyclic)          *)
(***************************************************************************)
Fns == {"main", "F", "G"}

\* shapes of the body of F(a0, a1); G(b0) is { t = op(b0); return t }
FBodies == {"one_ret", "two_ret", "void_ret", "calls_G", "br_call"}

\* number of formal arguments of each function (fn->args())
NumArgs(f) == CASE f = "F" -> 2 [] f = "G" -> 1 [] OTHER -> 0

\* main: x = op(0); c1 = call F(x, 7); ... cn = call F(c(n-1), 7);
\*       u = op(cn); return u
MainInsts(n, fb) ==
  LET res(j) == IF j = 0 \/ fb = "void_ret" THEN VInst(1) ELSE VInst(j + 1)
  IN  <<Inst(1, "op", <<VConst(0)>>, NoFn, <<>>)>>
      \o [j \in 1..n |-> Inst(j + 1, "call", <<res(j - 1), VConst(7)>>, "F", <<>>)]
      \o <<Inst(n + 2, "op", <<res(n)>>, NoFn, <<>>),
           Inst(n + 3, "ret", <<VInst(n + 2)>>, NoFn, <<>>)>>

FBlocks(fb) ==
  CASE fb = "one_ret" ->
         <<Block("F", <<"b0">>,
             <<Inst(11, "op", <<VArg("F", 0), VArg("F", 1)>>, NoFn, <<>>),
               Inst(12, "op", <<VInst(11)>>, NoFn, <<>>),
               Inst(13, "ret", <<VInst(12)>>, NoFn, <<>>)>>)>>
    [] fb = "two_ret" ->
         <<Block("F", <<"b0">>,
             <<Inst(11, "op", <<VArg("F", 0), VArg("F", 1)>>, NoFn, <<>>),
               Inst(12, "condbr", <<VInst(11)>>, NoFn, <<3, 4>>)>>),
           Block("F", <<"b1">>,
             <<Inst(13, "ret", <<VArg("F", 0)>>, NoFn, <<>>)>>),
           Block("F", <<"b2">>,
             <<Inst(14, "op", <<VInst(11), VArg("F", 1)>>, NoFn, <<>>),
               Inst(15, "ret", <<VInst(14)>>, NoFn, <<>>)>>)>>
    [] fb = "void_ret" ->
         <<Block("F", <<"b0">>,
             <<Inst(11, "op", <<VArg("F", 1), VArg("F", 0)>>, NoFn, <<>>),
               Inst(12, "ret", <<>>, NoFn, <<>>)>>)>>
    [] fb = "calls_G" ->
         <<Block("F", <<"b0">>,
             <<Inst(11, "op", <<VArg("F", 0)>>, NoFn, <<>>),
               Inst(12, "call", <<VInst(11)>>, "G", <<>>),
               Inst(13, "ret", <<VInst(12)>>, NoFn, <<>>)>>)>>
    [] fb = "br_call" ->
         <<Block("F", <<"b0">>,
             <<Inst(11, "br", <<>>, NoFn, <<3>>)>>),
           Block("F", <<"b1">>,
             <<Inst(12, "call", <<VArg("F", 1)>>, "G", <<>>),
               Inst(13, "ret", <<VInst(12)>>, NoFn, <<>>)>>)>>

GBlocks ==
  <<Block("G", <<"b0">>,
      <<Inst(21, "op", <<VArg("G", 0)>>, NoFn, <<>>),
        Inst(22, "ret", <<VInst(21)>>, NoFn, <<>>)>>)>>

Max(S) == CHOOSE x \in S : \A y \in S : y <= x

\* identities not used by the module as constructed
FirstFreeInst(B) ==
  1 + Max(UNION {{B[b].insts[i].id : i \in DOMAIN B[b].insts} : b \in DOMAIN B})
FirstFreeBlock(B) == 1 + Max(DOMAIN B)

\* block ids: main 1, F 2.., G 5
ModuleBlocks(n, fb) ==
  LET fbs == FBlocks(fb)
  IN  (1 :> Block("main", <<"entry">>, MainInsts(n, fb)))
      @@ [b \in 2..(1 + Len(fbs)) |-> fbs[b - 1]]
      @@ (5 :> GBlocks[1])

ModuleFnBlocks(fb) ==
  [f \in Fns |-> CASE f = "main" -> <<1>>
                   [] f = "F" -> [i \in 1..Len(FBlocks(fb)) |-> i + 1]
                   [] OTHER -> <<5>>]

(***************************************************************************)
(*                   IR primitives used by do_inline                       *)
(***************************************************************************)
\* instruction::get_parent(): the block holding the instruction
ParentOf(B, id) ==
  CHOOSE b \in DOMAIN B : \E i \in DOMAIN B[b].insts : B[b].insts[i].id = id

PosIn(B, b, id) == CHOOSE i \in DOMAIN B[b].insts : B[b].insts[i].id = id

\* basic_block::split_before(loc, name): a new block receives the
\* instructions before loc and a branch to the old block, which keeps loc
\* and what follows; the new block takes the old one's place in the CFG
split_before(B, FB, nb, ni, P, loc, name) ==
  LET pf == B[P].parent
      pos == PosIn(B, P, loc)
      entry == nb
      retarget(i) == [i EXCEPT !.tgts =
                        [t \in DOMAIN i.tgts |-> IF i.tgts[t] = P THEN entry ELSE i.tgts[t]]]
      B1 == [b \in DOMAIN B |->
               IF B[b].parent = pf
               THEN [B[b] EXCEPT !.insts = [j \in DOMAIN B[b].insts |-> retarget(B[b].insts[j])]]
               ELSE B[b]]
      prefix == SubSeq(B1[P].insts, 1, pos - 1)
      suffix == SubSeq(B1[P].insts, pos, Len(B1[P].insts))
      B2 == [B1 EXCEPT ![P].insts = suffix]
            @@ (entry :> Block(pf, <<name>>,
                               Append(prefix, Inst(ni, "br", <<>>, NoFn, <<P>>))))
      at == IndexOf(FB[pf], P)
      FB2 == [FB EXCEPT ![pf] = SubSeq(@, 1, at - 1) \o <<entry>> \o SubSeq(@, at, Len(@))]
  IN  [blk |-> B2, fnBlocks |-> FB2, entry |-> entry, nextBlk |-> nb + 1, nextId |-> ni + 1]

\* basic_block::get_successors()
Successors(B, b) ==
  LET t == B[b].insts[Len(B[b].insts)] IN t.tgts

\* basic_block::create(ctx, name, parent): appended to the parent's blocks
CreateBlocks(B, FB, nb, parent_fn, names) ==
  [blk |-> B @@ [b \in nb..(nb + Len(names) - 1) |-> Block(parent_fn, names[b - nb + 1], <<>>)],
   fnBlocks |-> [FB EXCEPT ![parent_fn] = @ \o [i \in 1..Len(names) |-> nb + i - 1]],
   ids |-> [i \in 1..Len(names) |-> nb + i - 1],
   nextBlk |-> nb + Len(names)]

\* basic_block::get_first_non_phi(), as an index into the block
FirstNonPhi(insts) ==
  IF \E i \in DOMAIN insts : insts[i].op # "phi"
  THEN CHOOSE i \in DOMAIN insts : insts[i].op # "phi" /\ \A j \in 1..(i - 1) : insts[j].op = "phi"
  ELSE Len(insts) + 1

InsertAt(s, i, x) == SubSeq(s, 1, i - 1) \o <<x>> \o SubSeq(s, i, Len(s))

\* phi_node::add_incoming(v, block)
add_incoming(B, b, phi, v, from) ==
  [B EXCEPT ![b].insts =
     [j \in DOMAIN @ |-> IF @[j].id = phi
                         THEN [@[j] EXCEPT !.ops = Append(@, v), !.inc = Append(@, from)]
                         ELSE @[j]]]

\* user::replace_uses_of_with(old, new) on block operands
ReplaceBlockUse(i, old, new) ==
  [i EXCEPT !.tgts = [t \in DOMAIN i.tgts |-> IF i.tgts[t] = old THEN new ELSE i.tgts[t]]]

\* user::replace_uses_of_with(old, new) on value operands
ReplaceValueUse(i, old, new) ==
  [i EXCEPT !.ops = [t \in DOMAIN i.ops |-> IF i.ops[t] = old THEN new ELSE i.ops[t]]]

\* callsites[fn].push_back(call): operator[] creates the key when absent
PushCallsite(CS, f, id) ==
  IF f \in DOMAIN CS THEN [CS EXCEPT ![f] = Append(@, id)]
  ELSE CS @@ (f :> <<id>>)

(***************************************************************************)
(*                         inliner::do_inline                              *)
(***************************************************************************)
\* variant: the branch created by split_before is left in place
EraseSplitTerminator_kept(insts) == insts

\* lines 36-38: the branch created by split_before is erased from entry
EraseSplitTerminator(insts) == Front(insts)

\* lines 47-53: a `ret` becomes a branch to exit, anything else is cloned
\* (instruction::clone copies the instruction, operands included)
CloneOrBranch(old_inst, nid, exit) ==
  IF old_inst.op = "ret" THEN Inst(nid, "br", <<>>, NoFn, <<exit>>)
  ELSE [old_inst EXCEPT !.id = nid]

\* variant: the incoming is recorded as coming from the callee's own block
RecordReturn_oldblock(B, old_inst, exit, exit_val, new_block) ==
  IF old_inst.op = "ret" /\ old_inst.ops # <<>>
  THEN add_incoming(B, exit, exit_val, old_inst.ops[1], ParentOf(B, old_inst.id))
  ELSE B

\* lines 47-50: a value-carrying `ret` records (ret_val, new_block) in the phi
RecordReturn(B, old_inst, exit, exit_val, new_block) ==
  IF old_inst.op = "ret" /\ old_inst.ops # <<>>
  THEN add_incoming(B, exit, exit_val, old_inst.ops[1], new_block)
  ELSE B

\* lines 54-56: a cloned call is a new call site
RecordCallsite(CS, new_inst) ==
  IF new_inst.op = "call" THEN PushCallsite(CS, new_inst.callee, new_inst.id) ELSE CS

\* lines 57-58: uses of the callee's blocks become uses of their counterparts
RECURSIVE ReplaceBlocks(_, _, _, _)
ReplaceBlocks(new_inst, old_blocks, new_blocks, k) ==
  IF k > Len(new_blocks) THEN new_inst
  ELSE ReplaceBlocks(ReplaceBlockUse(new_inst, old_blocks[k], new_blocks[k]),
                     old_blocks, new_blocks, k + 1)

\* lines 59-60: uses of the formal arguments become uses of the actual ones
RECURSIVE ReplaceArgs(_, _, _, _)
ReplaceArgs(new_inst, src_args, tgt_args, k) ==
  IF k > Len(src_args) THEN new_inst
  ELSE ReplaceArgs(ReplaceValueUse(new_inst, src_args[k], tgt_args[k]),
                   src_args, tgt_args, k + 1)

\* lines 43-62: the body of the inner loop for one instruction of the callee
CloneOne(c, i, old_inst, a) ==
  LET new_block == c.new_blocks[i]
      nid  == a.nextId
      new0 == CloneOrBranch(old_inst, nid, c.exit)
      B1   == RecordReturn(a.blk, old_inst, c.exit, c.exit_val, new_block)
      CS   == RecordCallsite(a.callsites, new0)
      new1 == ReplaceBlocks(new0, c.old_blocks, c.new_blocks, 1)
      new2 == ReplaceArgs(new1, c.src_args, c.tgt_args, 1)
  IN  [blk |-> [B1 EXCEPT ![new_block].insts = Append(@, new2)],
       callsites |-> CS,
       nextId |-> nid + 1,
       map |-> Append(a.map, [old |-> old_inst.id, new |-> nid, blk |-> new_block])]

\* lines 39-63: both loops
RECURSIVE CloneFrom(_, _, _, _)
CloneFrom(c, i, j, a) ==
  IF i > Len(c.new_blocks) THEN a
  ELSE IF j > Len(a.blk[c.old_blocks[i]].insts) THEN CloneFrom(c, i + 1, 1, a)
  ELSE CloneFrom(c, i, j + 1, CloneOne(c, i, a.blk[c.old_blocks[i]].insts[j], a))

\* lines 10-66
do_inline(fn, callsite, B, FB, CS, ni, nb) ==
  LET parent_block == ParentOf(B, callsite)
      parent_fn == B[parent_block].parent
      sp    == split_before(B, FB, nb, ni, parent_block, callsite, fn)
      entry == sp.entry
      exit  == Successors(sp.blk, entry)[1]
      names == [i \in 1..(Len(sp.fnBlocks[fn]) - 1) |->
                  <<sp.blk[sp.fnBlocks[fn][i + 1]].parent>> \o sp.blk[sp.fnBlocks[fn][i + 1]].name]
      cr    == CreateBlocks(sp.blk, sp.fnBlocks, sp.nextBlk, parent_fn, names)
      new_blocks == <<entry>> \o cr.ids
      exit_val == sp.nextId
      phi   == [Inst(exit_val, "phi", <<>>, NoFn, <<>>) EXCEPT !.inc = <<>>]
      B1    == [cr.blk EXCEPT ![exit].insts = InsertAt(@, FirstNonPhi(@), phi)]
      callinst == B[parent_block].insts[PosIn(B, parent_block, callsite)]
      tgt_args == callinst.ops
      src_args == [k \in 1..NumArgs(fn) |-> VArg(fn, k - 1)]
      B2    == [B1 EXCEPT ![entry].insts = EraseSplitTerminator(@)]
      c     == [exit |-> exit, exit_val |-> exit_val, new_blocks |-> new_blocks,
                old_blocks |-> cr.fnBlocks[fn],
                src_args |-> src_args, tgt_args |-> tgt_args]
      r     == CloneFrom(c, 1, 1, [blk |-> B2, callsites |-> CS,
                                   nextId |-> exit_val + 1, map |-> <<>>])
  IN  [blk |-> r.blk, fnBlocks |-> cr.fnBlocks, callsites |-> r.callsites,
       nextId |-> r.nextId, nextBlk |-> cr.nextBlk, insertPoint |-> exit,
       rec |-> [fn |-> fn, callsite |-> callsite, caller |-> parent_fn,
                entry |-> entry, exit |-> exit, exit_val |-> exit_val,
                new_blocks |-> new_blocks, old_blocks |-> cr.fnBlocks[fn],
                src_args |-> src_args, tgt_args |-> tgt_args, map |-> r.map]]

(***************************************************************************)
(*                            inliner::run                                 *)
(***************************************************************************)
\* lines 71-77: every call instruction of every function of the module
RECURSIVE GatherInsts(_, _)
GatherInsts(insts, CS) ==
  IF insts = <<>> THEN CS
  ELSE GatherInsts(Tail(insts), RecordCallsite(CS, Head(insts)))

AllInsts(fl, FB, B) ==
  Flatten([i \in DOMAIN fl |-> Flatten([j \in DOMAIN FB[fl[i]] |-> B[FB[fl[i]][j]].insts])])

GatherCallsites(fl, FB, B) == GatherInsts(AllInsts(fl, FB, B), <<>>)

\* std::map iterates its keys in increasing address order
KeyPos(f) == IndexOf(order, f)

FirstKey(CS) == CHOOSE f \in DOMAIN CS : \A g \in DOMAIN CS : KeyPos(f) <= KeyPos(g)

KeysAfter(CS, f) == {g \in DOMAIN CS : KeyPos(g) > KeyPos(f)}

\* variant: the iteration goes back to the first key of the map
NextKey_first(CS, f) == FirstKey(CS)

\* ++it of the outer loop of run
NextKey(CS, f) == CHOOSE g \in KeysAfter(CS, f) : \A h \in KeysAfter(CS, f) : KeyPos(g) <= KeyPos(h)

\* module::remove_function(fn)
remove_function(fl, f) == SelectSeq(fl, LAMBDA g : g # f)

NoCall == [op |-> "none", a |-> 0, b |-> 0, c |-> 0, flag |-> FALSE, dst |-> 0, shape |-> <<>>,
           attr |-> "", n |-> 0, bits |-> <<>>]
NoOut  == [err |-> "none", msg |-> "", vals |-> <<>>, em |-> <<>>]

InitInline ==
  /\ \E n \in 1..MaxCalls, fb \in FBodies :
       /\ blk = ModuleBlocks(n, fb)
       /\ fnBlocks = ModuleFnBlocks(fb)
  /\ fnlist = <<"main", "F", "G">>
  /\ order \in Perms(Fns)
  /\ callsites = <<>>
  /\ pc = "scan" /\ cur = NoFn /\ idx = 1
  /\ nextId = FirstFreeInst(blk) /\ nextBlk = FirstFreeBlock(blk)
  /\ insertPoint = 0
  /\ log = <<>> /\ last = "init"
  /\ call = NoCall /\ out = NoOut
  /\ ast_types_ = {} /\ ast_values_ = <<>> /\ lookups = <<>>

\* run, lines 71-77
Scan ==
  /\ pc = "scan"
  /\ callsites' = GatherCallsites(fnlist, fnBlocks, blk)
  /\ IF DOMAIN callsites' = {}
     THEN pc' = "done" /\ cur' = NoFn
     ELSE pc' = "loop" /\ cur' = FirstKey(callsites')
  /\ idx' = 1 /\ last' = "scan"
  /\ UNCHANGED <<fnlist, fnBlocks, blk, order, nextId, nextBlk, insertPoint, log, call, out, ctxVars>>

\* run, lines 82-83: one iteration of the inner loop
InlineSite ==
  /\ pc = "loop"
  /\ idx <= Len(callsites[cur])
  /\ LET r == do_inline(cur, callsites[cur][idx], blk, fnBlocks, callsites, nextId, nextBlk)
     IN  /\ blk' = r.blk
         /\ fnBlocks' = r.fnBlocks
         /\ callsites' = r.callsites
         /\ nextId' = r.nextId
         /\ nextBlk' = r.nextBlk
         /\ insertPoint' = r.insertPoint
         /\ log' = Append(log, r.rec)
  /\ idx' = idx + 1
  /\ last' = "inline"
  /\ UNCHANGED <<fnlist, order, pc, cur, call, out, ctxVars>>

\* variant: the callee is removed one call site too early
RemoveCallee_early ==
  /\ pc = "loop"
  /\ idx >= Len(callsites[cur])
  /\ fnlist' = remove_function(fnlist, cur)
  /\ IF KeysAfter(callsites, cur) = {}
     THEN pc' = "done" /\ cur' = NoFn
     ELSE pc' = "loop" /\ cur' = NextKey(callsites, cur)
  /\ idx' = 1
  /\ last' = "remove"
  /\ UNCHANGED <<fnBlocks, blk, callsites, order, nextId, nextBlk, insertPoint, log, call, out, ctxVars>>

\* run, line 84 and the step of the outer loop
RemoveCallee ==
  /\ pc = "loop"
  /\ idx > Len(callsites[cur])
  /\ fnlist' = remove_function(fnlist, cur)
  /\ IF KeysAfter(callsites, cur) = {}
     THEN pc' = "done" /\ cur' = NoFn
     ELSE pc' = "loop" /\ cur' = NextKey(callsites, cur)
  /\ idx' = 1
  /\ last' = "remove"
  /\ UNCHANGED <<fnBlocks, blk, callsites, order, nextId, nextBlk, insertPoint, log, call, out, ctxVars>>

NextInline == Scan \/ InlineSite \/ RemoveCallee

SpecInline == InitInline /\ [][NextInline]_vars

\* run is one sequential call: it keeps taking its next step until it returns
\* (a step of run is possible exactly while run has not returned)
Running == pc \in {"scan", "loop"}

SpecInlineFair == SpecInline /\ ([]<>(~Running) \/ []<><<NextInline>>_vars)

(***************************************************************************)
(*                 Frontend types (ast::type) and values                   *)
(***************************************************************************)
\* bounds of the dispatcher inputs
MaxRank == 2
MaxDim == 2

SIGNED == "SIGNED"
UNSIGNED == "UNSIGNED"

\* scalar ir::type: kind, integer width, pointee and address space
NoPt == [k |-> "none", w |-> 0]
FpIr(k) == [k |-> k, w |-> 0, pt |-> NoPt, as |-> 0]
IntIr(w) == [k |-> "int", w |-> w, pt |-> NoPt, as |-> 0]
PtrIr(e, as) == [k |-> "ptr", w |-> 0, pt |-> [k |-> e.k, w |-> e.w], as |-> as]
VoidIr == [k |-> "void", w |-> 0, pt |-> NoPt, as |-> 0]

\* ir::type: a scalar (empty shape) or ir::block_type::get(elem, shape)
IrTy(elem, shape) == [elem |-> elem, shape |-> shape]

\* ast::type: an ir::type and a signedness; the pair is the key of
\* context::ast_types_, so equal records are the same canonical type
AstTy(irty, sn) == [elem |-> irty.elem, shape |-> irty.shape, sn |-> sn]
get_type_from_ir_type(irty, sn) == AstTy(irty, sn)
get_ir_type(t) == IrTy(t.elem, t.shape)

\* factory methods of ast::type
get_fp8_ty  == AstTy(IrTy(FpIr("fp8"), <<>>), SIGNED)
get_fp16_ty == AstTy(IrTy(FpIr("fp16"), <<>>), SIGNED)
get_bf16_ty == AstTy(IrTy(FpIr("bf16"), <<>>), SIGNED)
get_fp32_ty == AstTy(IrTy(FpIr("fp32"), <<>>), SIGNED)
get_fp64_ty == AstTy(IrTy(FpIr("fp64"), <<>>), SIGNED)
get_int_ty(w)  == AstTy(IrTy(IntIr(w), <<>>), SIGNED)
get_uint_ty(w) == AstTy(IrTy(IntIr(w), <<>>), UNSIGNED)
get_int1_ty  == get_int_ty(1)
get_int64_ty == get_int_ty(64)
get_pointer_ty(pointee, as) == AstTy(IrTy(PtrIr(pointee.elem, as), <<>>), SIGNED)
get_block_ty(t, shape) == AstTy(IrTy(t.elem, shape), t.sn)

\* type attributes and predicates of ast::type; each forwards to ir::type,
\* whose scalar predicates are false on a block type
is_block_ty(t) == t.shape # <<>>
get_block_shapes(t) == t.shape
get_scalar_ty(t) == AstTy(IrTy(t.elem, <<>>), t.sn)
FloatKinds == {"fp8", "fp16", "bf16", "fp32", "fp64"}
is_fp16_ty(t) == ~is_block_ty(t) /\ t.elem.k = "fp16"
is_fp32_ty(t) == ~is_block_ty(t) /\ t.elem.k = "fp32"
is_fp64_ty(t) == ~is_block_ty(t) /\ t.elem.k = "fp64"
is_floating_point_ty(t) == ~is_block_ty(t) /\ t.elem.k \in FloatKinds
is_integer_ty(t) == ~is_block_ty(t) /\ t.elem.k = "int"
is_pointer_ty(t) == ~is_block_ty(t) /\ t.elem.k = "ptr"
is_bool_ty(t) == is_integer_ty(t) /\ t.elem.w = 1
get_integer_bitwidth(t) == t.elem.w
get_integer_signedness(t) == t.sn
is_integer_signed(t) == t.sn = SIGNED
get_fp_mantissa_width(t) ==
  CASE t.elem.k = "fp8" -> 3 [] t.elem.k = "bf16" -> 7 [] t.elem.k = "fp16" -> 10
    [] t.elem.k = "fp32" -> 23 [] t.elem.k = "fp64" -> 53 [] OTHER -> 0

\* ir::value: an input of the call, a constant, or an emitted instruction;
\* meta is the metadata set on an instruction
IrVal(op, args, ty, attr) ==
  [op |-> op, args |-> args, ty |-> ty, attr |-> attr, meta |-> <<>>]

\* ast::value (value.h): the ir value and the frontend type
Val(ir, ty) == [ir |-> ir, ty |-> ty]
create_value(ir, ty) == Val(ir, ty)
\* context::create_value(ir::value*): the type is inferred, signed by default
create_value_inferred(ir) == Val(ir, get_type_from_ir_type(ir.ty, SIGNED))

NoVal == Val(IrVal("none", <<>>, IrTy(VoidIr, <<>>), ""), AstTy(IrTy(VoidIr, <<>>), SIGNED))

\* outcome of a dispatch function: the exception thrown ("none" when it
\* returns) with the key words of its message, the returned value and the
\* instructions the builder received
Ok(v, em) == [err |-> "none", msg |-> "", val |-> v, em |-> em]
FailMsg(kind, msg, em) == [err |-> kind, msg |-> msg, val |-> NoVal, em |-> em]
Fail(kind, em) == FailMsg(kind, "", em)
\* semantic_error, std::runtime_error, and the std::runtime_error that
\* throw_unreachable raises ("likely a bug on our side")
SemanticError == "semantic_error"
RuntimeError == "runtime_error"
Unreachable == "unreachable"

\* sequencing of two steps: an exception of the first skips the second
Bind(r, K(_)) == IF r.err # "none" THEN FailMsg(r.err, r.msg, r.em) ELSE K(r)

\* builder->create_xxx: the instruction is appended to the builder's block
Emit(op, args, irty, attr, ty, em) ==
  LET i == IrVal(op, args, irty, attr) IN Ok(create_value(i, ty), Append(em, i))

(***************************************************************************)
(*                     Implicit casting utilities                          *)
(***************************************************************************)
\* outcome of a function that returns a type
OkTy(t) == [err |-> "none", msg |-> "", ty |-> t]
FailTy(kind, msg) == [err |-> kind, msg |-> msg, ty |-> NoVal.ty]

\* variant: on mixed signedness the unsigned type wins only when strictly wider
integer_promote_strict(a_ty, b_ty) ==
  LET a_rank == get_integer_bitwidth(a_ty)
      b_rank == get_integer_bitwidth(b_ty)
      a_sn == get_integer_signedness(a_ty)
      b_sn == get_integer_signedness(b_ty)
  IN  IF a_sn = b_sn THEN OkTy(IF a_rank > b_rank THEN a_ty ELSE b_ty)
      ELSE IF a_sn = UNSIGNED THEN OkTy(IF a_rank > b_rank THEN a_ty ELSE b_ty)
      ELSE IF b_sn = UNSIGNED THEN OkTy(IF b_rank > a_rank THEN b_ty ELSE a_ty)
      ELSE FailTy(Unreachable, "integer_promote")

\* dispatch.cc:901-917
integer_promote(a_ty, b_ty) ==
  LET a_rank == get_integer_bitwidth(a_ty)
      b_rank == get_integer_bitwidth(b_ty)
      a_sn == get_integer_signedness(a_ty)
      b_sn == get_integer_signedness(b_ty)
  IN  IF a_sn = b_sn THEN OkTy(IF a_rank > b_rank THEN a_ty ELSE b_ty)
      ELSE IF a_sn = UNSIGNED THEN OkTy(IF a_rank >= b_rank THEN a_ty ELSE b_ty)
      ELSE IF b_sn = UNSIGNED THEN OkTy(IF b_rank >= a_rank THEN b_ty ELSE a_ty)
      ELSE FailTy(Unreachable, "integer_promote")

\* variant: division and remainder promote integers of different signedness
computation_type_unchecked(a_ty, b_ty, div_or_mod) ==
  IF is_fp64_ty(a_ty) \/ is_fp64_ty(b_ty) THEN OkTy(get_fp64_ty)
  ELSE IF is_fp32_ty(a_ty) \/ is_fp32_ty(b_ty) THEN OkTy(get_fp32_ty)
  ELSE IF is_fp16_ty(a_ty) \/ is_fp16_ty(b_ty)
       THEN OkTy(IF div_or_mod THEN get_fp32_ty ELSE get_fp16_ty)
  ELSE IF ~is_integer_ty(a_ty) \/ ~is_integer_ty(b_ty) THEN FailTy(Unreachable, "computation_type")
  ELSE integer_promote(a_ty, b_ty)

\* dispatch.cc:921-948
computation_type(a_ty, b_ty, div_or_mod) ==
  IF is_fp64_ty(a_ty) \/ is_fp64_ty(b_ty) THEN OkTy(get_fp64_ty)
  ELSE IF is_fp32_ty(a_ty) \/ is_fp32_ty(b_ty) THEN OkTy(get_fp32_ty)
  ELSE IF is_fp16_ty(a_ty) \/ is_fp16_ty(b_ty)
       THEN OkTy(IF div_or_mod THEN get_fp32_ty ELSE get_fp16_ty)
  ELSE IF ~is_integer_ty(a_ty) \/ ~is_integer_ty(b_ty) THEN FailTy(Unreachable, "computation_type")
  ELSE IF div_or_mod /\ get_integer_signedness(a_ty) # get_integer_signedness(b_ty)
       THEN FailTy(SemanticError, "different signedness")
  ELSE integer_promote(a_ty, b_ty)

\* dispatch.cc:958-969; TRUE when it throws
check_ptr_type(type_a, type_b, allow_ptr_a) ==
  is_pointer_ty(type_a) /\
    (\/ ~allow_ptr_a
     \/ (is_pointer_ty(type_b) /\ type_a # type_b)
     \/ is_floating_point_ty(type_b))

(***************************************************************************)
(*                      Shape manipulation: broadcast                      *)
(***************************************************************************)
\* dispatch.cc:1369-1381: the common shape, <<0>> standing for the throw
RECURSIVE CommonShape(_, _)
CommonShape(lhs_shape, rhs_shape) ==
  IF lhs_shape = <<>> THEN <<>>
  ELSE LET left == Head(lhs_shape)
           right == Head(rhs_shape)
           rest == CommonShape(Tail(lhs_shape), Tail(rhs_shape))
       IN  IF rest = <<0>> THEN <<0>>
           ELSE IF left = 1 THEN <<right>> \o rest
           ELSE IF right = 1 THEN <<left>> \o rest
           ELSE IF left = right THEN <<left>> \o rest
           ELSE <<0>>

\* dispatch.cc:1358,1361,1383,1385: the frontend type handed to
\* ctx->create_value for a re-created operand is the type it had before
BroadcastValueType(old_ty, shape) == old_ty

\* variant: a side is broadcast whatever its shape
NeedsBroadcast_always(shape, ret_shape) == TRUE

\* dispatch.cc:1383,1385: a side is broadcast when its shape is not ret_shape
NeedsBroadcast(shape, ret_shape) == shape # ret_shape

\* dispatch.cc:1352-1388, pairwise broadcast; the value returned is the
\* pair <<lhs, rhs>>
broadcast2(lhs, rhs, em) ==
  LET lhs_ty == lhs.ty
      rhs_ty == rhs.ty
      lhs_shape == get_block_shapes(lhs.ty)
      rhs_shape == get_block_shapes(rhs.ty)
      ret_shape == CommonShape(lhs_shape, rhs_shape)
  IN  IF is_block_ty(lhs_ty) /\ ~is_block_ty(rhs_ty)
      THEN Bind(Emit("splat", <<rhs.ir>>, IrTy(rhs.ir.ty.elem, lhs_shape), "",
                     BroadcastValueType(rhs_ty, lhs_shape), em), LAMBDA r :
           Ok(<<lhs, r.val>>, r.em))
      ELSE IF ~is_block_ty(lhs_ty) /\ is_block_ty(rhs_ty)
      THEN Bind(Emit("splat", <<lhs.ir>>, IrTy(lhs.ir.ty.elem, rhs_shape), "",
                     BroadcastValueType(lhs_ty, rhs_shape), em), LAMBDA l :
           Ok(<<l.val, rhs>>, l.em))
      ELSE IF is_block_ty(lhs_ty) /\ is_block_ty(rhs_ty)
      THEN IF Len(lhs_shape) # Len(rhs_shape) THEN Fail(RuntimeError, em)
           ELSE IF ret_shape = <<0>> THEN Fail(RuntimeError, em)
           ELSE Bind(IF NeedsBroadcast(lhs_shape, ret_shape)
                     THEN Emit("broadcast", <<lhs.ir>>, IrTy(lhs.ir.ty.elem, ret_shape), "",
                               BroadcastValueType(lhs_ty, ret_shape), em)
                     ELSE Ok(lhs, em), LAMBDA l :
                Bind(IF NeedsBroadcast(rhs_shape, ret_shape)
                     THEN Emit("broadcast", <<rhs.ir>>, IrTy(rhs.ir.ty.elem, ret_shape), "",
                               BroadcastValueType(rhs_ty, ret_shape), l.em)
                     ELSE Ok(rhs, l.em), LAMBDA r :
                Ok(<<l.val, r.val>>, r.em)))
      ELSE Ok(<<lhs, rhs>>, em)

(***************************************************************************)
(*                          Cast, comparison, add                          *)
(***************************************************************************)
\* builder->get_int64(0)
get_int64(c) == IrVal("const", <<>>, IrTy(IntIr(64), <<>>), c)

\* result type of an integer comparison: int1 with the shape of its operand
CmpIrTy(v) == IrTy(IntIr(1), v.ty.shape)

\* variant: a signed int1 source is sign-extended like any signed integer
SignExtend_int1(src_sca_ty) == is_integer_signed(src_sca_ty)

\* dispatch.cc:1437
SignExtend(src_sca_ty) ==
  is_integer_signed(src_sca_ty) /\ get_ir_type(src_sca_ty) # get_ir_type(get_int1_ty)

\* variant: the cast never sign-extends
CastFlag_zext(sign_extend) == "zext"

\* the is_signed argument of builder->create_int_cast, kept on the instruction
CastFlag(sign_extend) == IF sign_extend THEN "sext" ELSE "zext"

\* dispatch.cc:1413-1416: the destination of a block source becomes a block
\* of the source's shape, with the signedness of the source
LiftDst(src_ty, dst_ty) ==
  IF is_block_ty(src_ty)
  THEN get_type_from_ir_type(IrTy(get_ir_type(dst_ty).elem, get_block_shapes(src_ty)),
                             get_integer_signedness(src_ty))
  ELSE dst_ty

RECURSIVE cast(_, _, _)
RECURSIVE not_equal(_, _, _)
RECURSIVE binary_op_type_checking(_, _, _, _, _, _, _)

\* dispatch.cc:971-987; the value returned is the pair <<lhs, rhs>>
binary_op_type_checking(lhs0, rhs0, em, allow_lhs_ptr, allow_rhs_ptr, arithmetic_check, div_or_mod) ==
  Bind(broadcast2(lhs0, rhs0, em), LAMBDA b :
    LET lhs == b.val[1]
        rhs == b.val[2]
        lhs_sca_ty == get_scalar_ty(lhs.ty)
        rhs_sca_ty == get_scalar_ty(rhs.ty)
        ret_sca_ty == computation_type(lhs_sca_ty, rhs_sca_ty, div_or_mod)
    IN  IF check_ptr_type(lhs_sca_ty, rhs_sca_ty, allow_lhs_ptr)
        THEN FailMsg(SemanticError, "invalid operands", b.em)
        ELSE IF check_ptr_type(rhs_sca_ty, lhs_sca_ty, allow_rhs_ptr)
        THEN FailMsg(SemanticError, "invalid operands", b.em)
        ELSE IF arithmetic_check /\ ~is_pointer_ty(lhs_sca_ty) /\ ~is_pointer_ty(rhs_sca_ty)
        THEN IF ret_sca_ty.err # "none" THEN FailMsg(ret_sca_ty.err, ret_sca_ty.msg, b.em)
             ELSE Bind(cast(lhs, ret_sca_ty.ty, b.em), LAMBDA l :
                  Bind(cast(rhs, ret_sca_ty.ty, l.em), LAMBDA r :
                  Ok(<<l.val, r.val>>, r.em)))
        ELSE b)

\* dispatch.cc:1286-1297
not_equal(input0, other0, em) ==
  Bind(binary_op_type_checking(input0, other0, em, FALSE, FALSE, TRUE, FALSE), LAMBDA t :
    LET input == t.val[1]
        other == t.val[2]
        ret_ty == input.ty
        scalar_ty == get_scalar_ty(input.ty)
    IN  IF is_floating_point_ty(scalar_ty)
        THEN Emit("fcmpUNE", <<input.ir, other.ir>>, CmpIrTy(input.ir), "", ret_ty, t.em)
        ELSE IF is_integer_ty(scalar_ty)
        THEN Emit("icmpNE", <<input.ir, other.ir>>, CmpIrTy(input.ir), "", ret_ty, t.em)
        ELSE Fail(Unreachable, t.em))

\* dispatch.cc:1411-1482
cast(input, dst_ty0, em) ==
  LET src_ty == input.ty
      dst_ty == LiftDst(input.ty, dst_ty0)
      src_sca_ty == get_scalar_ty(input.ty)
      dst_sca_ty == get_scalar_ty(LiftDst(input.ty, dst_ty0))
      both_fp == is_floating_point_ty(src_sca_ty) /\ is_floating_point_ty(dst_sca_ty)
      truncate_fp == both_fp /\ get_fp_mantissa_width(src_sca_ty) > get_fp_mantissa_width(dst_sca_ty)
      ext_fp == both_fp /\ get_fp_mantissa_width(src_sca_ty) < get_fp_mantissa_width(dst_sca_ty)
      int64 == get_type_from_ir_type(IrTy(IntIr(64), <<>>), SIGNED)
      zero == create_value(get_int64("0"), get_int64_ty)
      emit(op, attr) == Emit(op, <<input.ir>>, get_ir_type(dst_ty), attr, dst_ty, em)
  IN  IF src_ty = dst_ty THEN Ok(input, em)
      ELSE IF truncate_fp THEN emit("fp_trunc", "")
      ELSE IF ext_fp THEN emit("fp_ext", "")
      ELSE IF /\ is_integer_ty(src_sca_ty) /\ is_integer_ty(dst_sca_ty)
              /\ \/ get_integer_bitwidth(src_sca_ty) # get_integer_bitwidth(dst_sca_ty)
                 \/ get_integer_signedness(src_sca_ty) # get_integer_signedness(dst_sca_ty)
      THEN emit("int_cast", CastFlag(SignExtend(src_sca_ty)))
      ELSE IF is_floating_point_ty(src_sca_ty) /\ is_integer_ty(dst_sca_ty)
      THEN IF is_bool_ty(dst_sca_ty) THEN emit("fp_to_ui", "") ELSE emit("fp_to_si", "")
      ELSE IF is_integer_ty(src_sca_ty) /\ is_floating_point_ty(dst_sca_ty)
      THEN IF is_bool_ty(src_sca_ty) \/ ~is_integer_signed(src_sca_ty)
           THEN emit("ui_to_fp", "") ELSE emit("si_to_fp", "")
      ELSE IF /\ is_pointer_ty(src_sca_ty) /\ is_integer_ty(dst_sca_ty)
              /\ get_integer_bitwidth(dst_sca_ty) = 64
      THEN emit("PtrToInt", "")
      ELSE IF /\ is_pointer_ty(src_sca_ty) /\ is_integer_ty(dst_sca_ty)
              /\ get_integer_bitwidth(dst_sca_ty) = 1
      THEN Bind(cast(input, int64, em), LAMBDA c :
             not_equal(c.val, create_value_inferred(get_int64("0")), c.em))
      ELSE IF ~is_pointer_ty(src_sca_ty) /\ is_pointer_ty(dst_sca_ty) THEN emit("IntToPtr", "")
      ELSE IF is_pointer_ty(src_sca_ty) /\ is_pointer_ty(dst_sca_ty) THEN emit("BitCast", "")
      ELSE IF is_bool_ty(dst_sca_ty)
      THEN Bind(IF is_pointer_ty(src_sca_ty) THEN cast(input, int64, em) ELSE Ok(input, em), LAMBDA c :
           Bind(IF is_bool_ty(src_ty)
                THEN Emit("splat", <<zero.ir>>, IrTy(zero.ir.ty.elem, get_block_shapes(src_ty)),
                          "", dst_ty, c.em)
                ELSE Ok(zero, c.em), LAMBDA other :
           Emit("icmpNE", <<c.val.ir, other.val.ir>>, CmpIrTy(c.val.ir), "", dst_ty, other.em)))
      ELSE Fail(Unreachable, em)

\* dispatch.cc:989-1013
add(input0, other0, em) ==
  Bind(binary_op_type_checking(input0, other0, em, TRUE, TRUE, TRUE, FALSE), LAMBDA t :
    LET ret_ty == t.val[1].ty
        input_scalar_ty == get_scalar_ty(t.val[1].ty)
        other_scalar_ty == get_scalar_ty(t.val[2].ty)
        swap == is_pointer_ty(other_scalar_ty) /\ ~is_pointer_ty(input_scalar_ty)
        input == IF swap THEN t.val[2] ELSE t.val[1]
        other == IF swap THEN t.val[1] ELSE t.val[2]
    IN  IF is_pointer_ty(input_scalar_ty)
        THEN Emit("gep", <<input.ir, other.ir>>, input.ir.ty, "", ret_ty, t.em)
        ELSE IF is_floating_point_ty(input_scalar_ty)
        THEN Emit("fadd", <<input.ir, other.ir>>, input.ir.ty, "", ret_ty, t.em)
        ELSE IF is_integer_ty(input_scalar_ty)
        THEN Emit("add", <<input.ir, other.ir>>, input.ir.ty, "", ret_ty, t.em)
        ELSE Fail(Unreachable, t.em))

(***************************************************************************)
(*                  The other binary and unary operators                   *)
(***************************************************************************)
\* ir::constant::get_null_value
get_null_value(irty) == IrVal("const", <<>>, irty, "0")

RECURSIVE sub(_, _, _)
RECURSIVE minus(_, _)

\* dispatch.cc:1015-1032
sub(input0, other0, em) ==
  Bind(binary_op_type_checking(input0, other0, em, TRUE, FALSE, TRUE, FALSE), LAMBDA t :
    LET input == t.val[1]
        other == t.val[2]
        ret_ty == t.val[1].ty
        input_scalar_ty == get_scalar_ty(t.val[1].ty)
    IN  IF is_pointer_ty(input_scalar_ty)
        THEN Bind(minus(other, t.em), LAMBDA m :
               Emit("gep", <<input.ir, m.val.ir>>, input.ir.ty, "", ret_ty, m.em))
        ELSE IF is_floating_point_ty(input_scalar_ty)
        THEN Emit("fsub", <<input.ir, other.ir>>, input.ir.ty, "", ret_ty, t.em)
        ELSE IF is_integer_ty(input_scalar_ty)
        THEN Emit("sub", <<input.ir, other.ir>>, input.ir.ty, "", ret_ty, t.em)
        ELSE Fail(Unreachable, t.em))

\* dispatch.cc:1181-1187
minus(input, em) ==
  LET input_sca_ty == get_scalar_ty(input.ty)
  IN  IF is_pointer_ty(input_sca_ty)
      THEN FailMsg(SemanticError, "wrong type argument to unary minus", em)
      ELSE sub(create_value(get_null_value(get_ir_type(input_sca_ty)), input_sca_ty), input, em)

\* variant: the multiply instructions take the operands in the other order
mul_exchanged(input0, other0, em) ==
  Bind(binary_op_type_checking(input0, other0, em, FALSE, FALSE, TRUE, FALSE), LAMBDA t :
    LET input == t.val[1]
        other == t.val[2]
        ret_ty == t.val[1].ty
        scalar_ty == get_scalar_ty(t.val[1].ty)
    IN  IF is_floating_point_ty(scalar_ty)
        THEN Emit("fmul", <<other.ir, input.ir>>, input.ir.ty, "", ret_ty, t.em)
        ELSE IF is_integer_ty(scalar_ty)
        THEN Emit("mul", <<other.ir, input.ir>>, input.ir.ty, "", ret_ty, t.em)
        ELSE Fail(Unreachable, t.em))

\* dispatch.cc:1034-1045
mul(input0, other0, em) ==
  Bind(binary_op_type_checking(input0, other0, em, FALSE, FALSE, TRUE, FALSE), LAMBDA t :
    LET input == t.val[1]
        other == t.val[2]
        ret_ty == t.val[1].ty
        scalar_ty == get_scalar_ty(t.val[1].ty)
    IN  IF is_floating_point_ty(scalar_ty)
        THEN Emit("fmul", <<input.ir, other.ir>>, input.ir.ty, "", ret_ty, t.em)
        ELSE IF is_integer_ty(scalar_ty)
        THEN Emit("mul", <<input.ir, other.ir>>, input.ir.ty, "", ret_ty, t.em)
        ELSE Fail(Unreachable, t.em))

\* dispatch.cc:1072: create_fdiv on the operands as they are now, typed with
\* the frontend type of input
create_fdiv(input, other, attr, em) ==
  Emit("fdiv", <<input.ir, other.ir>>, input.ir.ty, attr, input.ty, em)

\* variant: two integer operands are divided as they are
truediv_nocast(input0, other0, em) ==
  Bind(binary_op_type_checking(input0, other0, em, FALSE, FALSE, TRUE, TRUE), LAMBDA t :
    LET input_scalar_ty == get_scalar_ty(t.val[1].ty)
        other_scalar_ty == get_scalar_ty(t.val[2].ty)
    IN  IF is_floating_point_ty(input_scalar_ty) /\ is_integer_ty(other_scalar_ty)
        THEN Bind(cast(t.val[2], input_scalar_ty, t.em), LAMBDA o :
               create_fdiv(t.val[1], o.val, "", o.em))
        ELSE IF is_integer_ty(input_scalar_ty) /\ is_floating_point_ty(other_scalar_ty)
        THEN Bind(cast(t.val[1], other_scalar_ty, t.em), LAMBDA i :
               create_fdiv(i.val, t.val[2], "", i.em))
        ELSE IF is_integer_ty(input_scalar_ty) /\ is_integer_ty(other_scalar_ty)
        THEN create_fdiv(t.val[1], t.val[2], "", t.em)
        ELSE IF is_floating_point_ty(input_scalar_ty) /\ is_floating_point_ty(other_scalar_ty)
        THEN IF get_fp_mantissa_width(input_scalar_ty) > get_fp_mantissa_width(other_scalar_ty)
             THEN Bind(cast(t.val[2], input_scalar_ty, t.em), LAMBDA o :
                    create_fdiv(t.val[1], o.val, "", o.em))
             ELSE Bind(cast(t.val[1], other_scalar_ty, t.em), LAMBDA i :
                    create_fdiv(i.val, t.val[2], "", i.em))
        ELSE Fail(Unreachable, t.em))

\* dispatch.cc:1047-1073
truediv(input0, other0, em) ==
  Bind(binary_op_type_checking(input0, other0, em, FALSE, FALSE, TRUE, TRUE), LAMBDA t :
    LET input_scalar_ty == get_scalar_ty(t.val[1].ty)
        other_scalar_ty == get_scalar_ty(t.val[2].ty)
    IN  IF is_floating_point_ty(input_scalar_ty) /\ is_integer_ty(other_scalar_ty)
        THEN Bind(cast(t.val[2], input_scalar_ty, t.em), LAMBDA o :
               create_fdiv(t.val[1], o.val, "", o.em))
        ELSE IF is_integer_ty(input_scalar_ty) /\ is_floating_point_ty(other_scalar_ty)
        THEN Bind(cast(t.val[1], other_scalar_ty, t.em), LAMBDA i :
               create_fdiv(i.val, t.val[2], "", i.em))
        ELSE IF is_integer_ty(input_scalar_ty) /\ is_integer_ty(other_scalar_ty)
        THEN Bind(cast(t.val[1], get_fp32_ty, t.em), LAMBDA i :
             Bind(cast(t.val[2], get_fp32_ty, i.em), LAMBDA o :
               create_fdiv(i.val, o.val, "", o.em)))
        ELSE IF is_floating_point_ty(input_scalar_ty) /\ is_floating_point_ty(other_scalar_ty)
        THEN IF get_fp_mantissa_width(input_scalar_ty) > get_fp_mantissa_width(other_scalar_ty)
             THEN Bind(cast(t.val[2], input_scalar_ty, t.em), LAMBDA o :
                    create_fdiv(t.val[1], o.val, "", o.em))
             ELSE Bind(cast(t.val[1], other_scalar_ty, t.em), LAMBDA i :
                    create_fdiv(i.val, t.val[2], "", i.em))
        ELSE Fail(Unreachable, t.em))

\* dispatch.cc:1075-1090; the result is typed with the scalar type ret_ty
floordiv(input0, other0, em) ==
  Bind(binary_op_type_checking(input0, other0, em, FALSE, FALSE, TRUE, TRUE), LAMBDA t :
    LET input_scalar_ty == get_scalar_ty(t.val[1].ty)
        other_scalar_ty == get_scalar_ty(t.val[2].ty)
        ret_ty == integer_promote(input_scalar_ty, other_scalar_ty)
    IN  IF is_integer_ty(input_scalar_ty) /\ is_integer_ty(other_scalar_ty)
        THEN IF ret_ty.err # "none" THEN FailMsg(ret_ty.err, ret_ty.msg, t.em)
             ELSE Bind(cast(t.val[1], ret_ty.ty, t.em), LAMBDA i :
                  Bind(cast(t.val[2], ret_ty.ty, i.em), LAMBDA o :
                    IF is_integer_signed(ret_ty.ty)
                    THEN Emit("sdiv", <<i.val.ir, o.val.ir>>, i.val.ir.ty, "", ret_ty.ty, o.em)
                    ELSE Emit("udiv", <<i.val.ir, o.val.ir>>, i.val.ir.ty, "", ret_ty.ty, o.em)))
        ELSE Fail(Unreachable, t.em))

\* dispatch.cc:1092-1102
fdiv(input, other, ieee_rounding, em) ==
  LET input_scalar_ty == get_scalar_ty(input.ty)
      other_scalar_ty == get_scalar_ty(other.ty)
  IN  IF ~is_floating_point_ty(input_scalar_ty) \/ ~is_floating_point_ty(other_scalar_ty)
      THEN FailMsg(SemanticError, "both operands of fdiv must have floating point scalar type", em)
      ELSE Bind(binary_op_type_checking(input, other, em, FALSE, FALSE, FALSE, TRUE), LAMBDA t :
             create_fdiv(t.val[1], t.val[2], IF ieee_rounding THEN "ieee" ELSE "", t.em))

\* dispatch.cc:1104-1124
mod(input0, other0, em) ==
  Bind(binary_op_type_checking(input0, other0, em, FALSE, FALSE, TRUE, TRUE), LAMBDA t :
    LET input == t.val[1]
        other == t.val[2]
        ret_ty == t.val[1].ty
        scalar_ty == get_scalar_ty(t.val[1].ty)
        other_scalar_ty == get_scalar_ty(t.val[2].ty)
    IN  IF is_floating_point_ty(scalar_ty)
        THEN Emit("frem", <<input.ir, other.ir>>, input.ir.ty, "", ret_ty, t.em)
        ELSE IF is_integer_ty(scalar_ty)
        THEN IF get_integer_signedness(scalar_ty) # get_integer_signedness(other_scalar_ty)
             THEN FailMsg(SemanticError, "different signedness", t.em)
             ELSE IF is_integer_signed(scalar_ty)
             THEN Emit("srem", <<input.ir, other.ir>>, input.ir.ty, "", ret_ty, t.em)
             ELSE Emit("urem", <<input.ir, other.ir>>, input.ir.ty, "", ret_ty, t.em)
        ELSE Fail(Unreachable, t.em))

\* dispatch.cc:1127-1138; the value returned is the pair <<input, other>>
bitwise_op_type_checking(input0, other0, em) ==
  Bind(binary_op_type_checking(input0, other0, em, FALSE, FALSE, FALSE, FALSE), LAMBDA t :
    LET input_sca_ty == get_scalar_ty(t.val[1].ty)
        other_sca_ty == get_scalar_ty(t.val[2].ty)
        ret_sca_ty == integer_promote(input_sca_ty, other_sca_ty)
    IN  IF ~is_integer_ty(input_sca_ty) \/ ~is_integer_ty(other_sca_ty)
        THEN FailMsg(SemanticError, "invalid operands", t.em)
        ELSE IF ret_sca_ty.err # "none" THEN FailMsg(ret_sca_ty.err, ret_sca_ty.msg, t.em)
        ELSE Bind(IF ret_sca_ty.ty # input_sca_ty
                  THEN cast(t.val[1], ret_sca_ty.ty, t.em) ELSE Ok(t.val[1], t.em), LAMBDA i :
             Bind(IF ret_sca_ty.ty # other_sca_ty
                  THEN cast(t.val[2], ret_sca_ty.ty, i.em) ELSE Ok(t.val[2], i.em), LAMBDA o :
               Ok(<<i.val, o.val>>, o.em))))

\* dispatch.cc:1140-1144
and_(input0, other0, em) ==
  Bind(bitwise_op_type_checking(input0, other0, em), LAMBDA t :
    Emit("and", <<t.val[1].ir, t.val[2].ir>>, t.val[1].ir.ty, "", t.val[1].ty, t.em))

\* dispatch.cc:1146-1150
or_(input0, other0, em) ==
  Bind(bitwise_op_type_checking(input0, other0, em), LAMBDA t :
    Emit("or", <<t.val[1].ir, t.val[2].ir>>, t.val[1].ir.ty, "", t.val[1].ty, t.em))

\* dispatch.cc:1153-1157
xor_(input0, other0, em) ==
  Bind(bitwise_op_type_checking(input0, other0, em), LAMBDA t :
    Emit("xor", <<t.val[1].ir, t.val[2].ir>>, t.val[1].ir.ty, "", t.val[1].ty, t.em))

\* dispatch.cc:1160-1164
lshr(input0, other0, em) ==
  Bind(bitwise_op_type_checking(input0, other0, em), LAMBDA t :
    Emit("lshr", <<t.val[1].ir, t.val[2].ir>>, t.val[1].ir.ty, "", t.val[1].ty, t.em))

\* dispatch.cc:1167-1171
shl(input0, other0, em) ==
  Bind(bitwise_op_type_checking(input0, other0, em), LAMBDA t :
    Emit("shl", <<t.val[1].ir, t.val[2].ir>>, t.val[1].ir.ty, "", t.val[1].ty, t.em))

\* dispatch.cc:1203-1219
greater_than(input0, other0, em) ==
  Bind(binary_op_type_checking(input0, other0, em, FALSE, FALSE, TRUE, FALSE), LAMBDA t :
    LET input == t.val[1]
        other == t.val[2]
        ret_ty == t.val[1].ty
        scalar_ty == get_scalar_ty(t.val[1].ty)
    IN  IF is_floating_point_ty(scalar_ty)
        THEN Emit("fcmpOGT", <<input.ir, other.ir>>, CmpIrTy(input.ir), "", ret_ty, t.em)
        ELSE IF is_integer_ty(scalar_ty)
        THEN IF is_integer_signed(scalar_ty)
             THEN Emit("icmpSGT", <<input.ir, other.ir>>, CmpIrTy(input.ir), "", ret_ty, t.em)
             ELSE Emit("icmpUGT", <<input.ir, other.ir>>, CmpIrTy(input.ir), "", ret_ty, t.em)
        ELSE Fail(Unreachable, t.em))

\* dispatch.cc:1221-1237
greater_equal(input0, other0, em) ==
  Bind(binary_op_type_checking(input0, other0, em, FALSE, FALSE, TRUE, FALSE), LAMBDA t :
    LET input == t.val[1]
        other == t.val[2]
        ret_ty == t.val[1].ty
        scalar_ty == get_scalar_ty(t.val[1].ty)
    IN  IF is_floating_point_ty(scalar_ty)
        THEN Emit("fcmpOGE", <<input.ir, other.ir>>, CmpIrTy(input.ir), "", ret_ty, t.em)
        ELSE IF is_integer_ty(scalar_ty)
        THEN IF is_integer_signed(scalar_ty)
             THEN Emit("icmpSGE", <<input.ir, other.ir>>, CmpIrTy(input.ir), "", ret_ty, t.em)
             ELSE Emit("icmpUGE", <<input.ir, other.ir>>, CmpIrTy(input.ir), "", ret_ty, t.em)
        ELSE Fail(Unreachable, t.em))

\* dispatch.cc:1239-1254
less_than(input0, other0, em) ==
  Bind(binary_op_type_checking(input0, other0, em, FALSE, FALSE, TRUE, FALSE), LAMBDA t :
    LET input == t.val[1]
        other == t.val[2]
        ret_ty == t.val[1].ty
        scalar_ty == get_scalar_ty(t.val[1].ty)
    IN  IF is_floating_point_ty(scalar_ty)
        THEN Emit("fcmpOLT", <<input.ir, other.ir>>, CmpIrTy(input.ir), "", ret_ty, t.em)
        ELSE IF is_integer_ty(scalar_ty)
        THEN IF is_integer_signed(scalar_ty)
             THEN Emit("icmpSLT", <<input.ir, other.ir>>, CmpIrTy(input.ir), "", ret_ty, t.em)
             ELSE Emit("icmpULT", <<input.ir, other.ir>>, CmpIrTy(input.ir), "", ret_ty, t.em)
        ELSE Fail(Unreachable, t.em))

\* dispatch.cc:1256-1271
less_equal(input0, other0, em) ==
  Bind(binary_op_type_checking(input0, other0, em, FALSE, FALSE, TRUE, FALSE), LAMBDA t :
    LET input == t.val[1]
        other == t.val[2]
        ret_ty == t.val[1].ty
        scalar_ty == get_scalar_ty(t.val[1].ty)
    IN  IF is_floating_point_ty(scalar_ty)
        THEN Emit("fcmpOLE", <<input.ir, other.ir>>, CmpIrTy(input.ir), "", ret_ty, t.em)
        ELSE IF is_integer_ty(scalar_ty)
        THEN IF is_integer_signed(scalar_ty)
             THEN Emit("icmpSLE", <<input.ir, other.ir>>, CmpIrTy(input.ir), "", ret_ty, t.em)
             ELSE Emit("icmpULE", <<input.ir, other.ir>>, CmpIrTy(input.ir), "", ret_ty, t.em)
        ELSE Fail(Unreachable, t.em))

\* dispatch.cc:1273-1284
equal(input0, other0, em) ==
  Bind(binary_op_type_checking(input0, other0, em, FALSE, FALSE, TRUE, FALSE), LAMBDA t :
    LET input == t.val[1]
        other == t.val[2]
        ret_ty == t.val[1].ty
        scalar_ty == get_scalar_ty(t.val[1].ty)
    IN  IF is_floating_point_ty(scalar_ty)
        THEN Emit("fcmpOEQ", <<input.ir, other.ir>>, CmpIrTy(input.ir), "", ret_ty, t.em)
        ELSE IF is_integer_ty(scalar_ty)
        THEN Emit("icmpEQ", <<input.ir, other.ir>>, CmpIrTy(input.ir), "", ret_ty, t.em)
        ELSE Fail(Unreachable, t.em))

(***************************************************************************)
(*            Shape-targeted broadcast, bitcast, where, atomics            *)
(***************************************************************************)
\* context::get_type_from_ir(ir::value*, signedness)
get_type_from_ir(v, sn) == get_type_from_ir_type(v.ty, sn)

\* dispatch.cc:1336-1350, broadcast(input, shape)
broadcast_shape(input, shape, em) ==
  IF ~is_block_ty(input.ty)
  THEN LET ret == IrVal("splat", <<input.ir>>, IrTy(input.ir.ty.elem, shape), "")
       IN  Ok(create_value(ret, get_type_from_ir(ret, get_integer_signedness(input.ty))),
              Append(em, ret))
  ELSE IF Len(get_block_shapes(input.ty)) # Len(shape)
  THEN FailMsg(RuntimeError, "Cannot broadcast", em)
  ELSE IF shape = get_block_shapes(input.ty) THEN Ok(input, em)
  ELSE LET ret == IrVal("broadcast", <<input.ir>>, IrTy(input.ir.ty.elem, shape), "")
       IN  Ok(create_value(ret, get_type_from_ir(ret, get_integer_signedness(input.ty))),
              Append(em, ret))

\* ir::type::get_primitive_size_in_bits of a scalar type
get_primitive_size_in_bits(t) ==
  CASE t.elem.k = "int" -> t.elem.w
    [] t.elem.k = "fp8" -> 8 [] t.elem.k \in {"fp16", "bf16"} -> 16
    [] t.elem.k = "fp32" -> 32 [] t.elem.k = "fp64" -> 64 [] OTHER -> 0

\* dispatch.cc:1390-1409
bitcast(input, dst_ty0, em) ==
  LET src_ty == input.ty
      dst_ty == LiftDst(input.ty, dst_ty0)
      src_sca_ty == get_scalar_ty(input.ty)
      dst_sca_ty == get_scalar_ty(LiftDst(input.ty, dst_ty0))
  IN  IF src_ty = dst_ty THEN Ok(input, em)
      ELSE IF is_pointer_ty(src_sca_ty) \/ is_pointer_ty(dst_sca_ty) THEN cast(input, dst_ty, em)
      ELSE IF get_primitive_size_in_bits(src_sca_ty) # get_primitive_size_in_bits(dst_sca_ty)
      THEN FailMsg(RuntimeError, "Cannot bitcast data-type of size", em)
      ELSE Emit("BitCast", <<input.ir>>, get_ir_type(dst_ty), "", dst_ty, em)

\* dispatch.cc:1687-1701
where(condition0, x0, y0, em) ==
  Bind(cast(condition0, get_int1_ty, em), LAMBDA condition :
  Bind(IF is_block_ty(condition.val.ty)
       THEN broadcast_shape(x0, get_block_shapes(condition.val.ty), condition.em)
       ELSE Ok(x0, condition.em), LAMBDA xb :
  Bind(IF is_block_ty(condition.val.ty)
       THEN broadcast_shape(y0, get_block_shapes(condition.val.ty), xb.em)
       ELSE Ok(y0, xb.em), LAMBDA yb :
    LET ty == computation_type(get_scalar_ty(xb.val.ty), get_scalar_ty(yb.val.ty), FALSE)
    IN  IF ty.err # "none" THEN FailMsg(ty.err, ty.msg, yb.em)
        ELSE Bind(cast(xb.val, ty.ty, yb.em), LAMBDA x :
             Bind(cast(yb.val, ty.ty, x.em), LAMBDA y :
               Emit("select", <<condition.val.ir, x.val.ir, y.val.ir>>, x.val.ir.ty, "",
                    get_type_from_ir_type(x.val.ir.ty, get_integer_signedness(ty.ty)), y.em))))))

\* ast::type::get_pointer_element_ty
get_pointer_element_ty(t) ==
  AstTy(IrTy([k |-> t.elem.pt.k, w |-> t.elem.pt.w, pt |-> NoPt, as |-> 0], <<>>), SIGNED)

\* builder->get_int1(true)
get_int1(c) == IrVal("const", <<>>, IrTy(IntIr(1), <<>>), c)

\* constant_fp::get(ty, 0)
constant_fp(ty) == IrVal("const", <<>>, get_ir_type(ty), "0.0")

\* dispatch.cc:1565-1583; the value returned is <<ptr, val, mask>>, and a
\* null mask is NoVal
atom_red_typechecking(ptr, val0, mask0, em) ==
  IF ~is_pointer_ty(get_scalar_ty(ptr.ty))
  THEN FailMsg(SemanticError, "Pointer argument of store instruction is", em)
  ELSE
  Bind(IF is_block_ty(ptr.ty) /\ mask0 # NoVal
       THEN broadcast_shape(mask0, get_block_shapes(ptr.ty), em) ELSE Ok(mask0, em), LAMBDA mb :
  Bind(IF is_block_ty(ptr.ty)
       THEN broadcast_shape(val0, get_block_shapes(ptr.ty), mb.em) ELSE Ok(val0, mb.em), LAMBDA vb :
  Bind(cast(vb.val, get_pointer_element_ty(get_scalar_ty(ptr.ty)), vb.em), LAMBDA val :
    IF mb.val # NoVal THEN Ok(<<ptr, val.val, mb.val>>, val.em)
    ELSE IF is_block_ty(ptr.ty)
    THEN Bind(Emit("splat", <<get_int1("true")>>, IrTy(IntIr(1), get_block_shapes(ptr.ty)), "",
                   val.val.ty, val.em), LAMBDA m :
           Ok(<<ptr, val.val, m.val>>, m.em))
    ELSE Ok(<<ptr, val.val, create_value_inferred(get_int1("true"))>>, val.em))))

\* builder->create_atomic_rmw(op, ptr, val, mask)
create_atomic_rmw(op, ptr, val, mask, em) ==
  LET i == IrVal("atomic_rmw", <<ptr.ir, val.ir, mask.ir>>, val.ir.ty, op)
  IN  Ok(create_value_inferred(i), Append(em, i))

\* the float case of atomic_max and atomic_min, dispatch.cc:1599-1605 and
\* 1622-1628, with the two rmw operations of the caller
atomic_float(ptr, val, mask, pos_op, neg_op, em) ==
  LET sca_ty == get_scalar_ty(val.ty)
      zero == create_value(constant_fp(get_scalar_ty(val.ty)), get_scalar_ty(val.ty))
  IN  Bind(bitcast(val, get_int_ty(32), em), LAMBDA i_val :
      Bind(bitcast(ptr, get_pointer_ty(get_int_ty(32), 1), i_val.em), LAMBDA i_ptr :
      Bind(greater_equal(val, zero, i_ptr.em), LAMBDA pos :
      Bind(less_than(val, zero, pos.em), LAMBDA neg :
      Bind(and_(mask, pos.val, neg.em), LAMBDA mpos :
      Bind(create_atomic_rmw(pos_op, i_ptr.val, i_val.val, mpos.val, mpos.em), LAMBDA pos_ret :
      Bind(and_(mask, neg.val, pos_ret.em), LAMBDA mneg :
      Bind(create_atomic_rmw(neg_op, i_ptr.val, i_val.val, mneg.val, mneg.em), LAMBDA neg_ret :
        where(pos.val, pos_ret.val, neg_ret.val, neg_ret.em)))))))))

\* dispatch.cc:1585-1606
atomic_max(ptr0, val0, mask0, em) ==
  Bind(atom_red_typechecking(ptr0, val0, mask0, em), LAMBDA t :
    IF is_integer_ty(get_scalar_ty(t.val[2].ty))
    THEN IF is_integer_signed(get_scalar_ty(t.val[2].ty))
         THEN create_atomic_rmw("Max", t.val[1], t.val[2], t.val[3], t.em)
         ELSE create_atomic_rmw("UMax", t.val[1], t.val[2], t.val[3], t.em)
    ELSE atomic_float(t.val[1], t.val[2], t.val[3], "Max", "UMin", t.em))

\* dispatch.cc:1608-1629
atomic_min(ptr0, val0, mask0, em) ==
  Bind(atom_red_typechecking(ptr0, val0, mask0, em), LAMBDA t :
    IF is_integer_ty(get_scalar_ty(t.val[2].ty))
    THEN IF is_integer_signed(get_scalar_ty(t.val[2].ty))
         THEN create_atomic_rmw("Min", t.val[1], t.val[2], t.val[3], t.em)
         ELSE create_atomic_rmw("UMin", t.val[1], t.val[2], t.val[3], t.em)
    ELSE atomic_float(t.val[1], t.val[2], t.val[3], "Min", "UMax", t.em))

(***************************************************************************)
(*                  reshape, load, compiler hints                          *)
(***************************************************************************)
RECURSIVE Product(_)
Product(shape) == IF shape = <<>> THEN 1 ELSE shape[1] * Product(Tail(shape))

\* ir::type::get_tile_num_elements
get_tile_num_elements(t) == Product(get_block_shapes(t))

\* dispatch.cc:1319-1327
reshape(input, dst_shape, em) ==
  IF get_tile_num_elements(input.ty) # Product(dst_shape)
  THEN FailMsg(SemanticError, "cannot reshape block of different shape", em)
  ELSE LET ret == IrVal("reshape", <<input.ir>>, IrTy(input.ir.ty.elem, dst_shape), "")
       IN  Ok(create_value(ret, get_type_from_ir(ret, get_integer_signedness(input.ty))),
              Append(em, ret))

\* ir::undef_value::get
undef_value(irty) == IrVal("undef", <<>>, irty, "")

\* the type a load instruction gives its result: the pointee, in the shape
\* of the pointer
LoadIrTy(ptr) == IrTy(get_ir_type(get_pointer_element_ty(create_value_inferred(ptr).ty)).elem,
                      ptr.ty.shape)

\* variant: a load without a mask is a plain load, whatever other is
PlainLoad_nomask(mask, other) == mask = NoVal

\* dispatch.cc:1519: if (!mask && !other)
PlainLoad(mask, other) == mask = NoVal /\ other = NoVal

\* dispatch.cc:1509-1518: load_inst::NONE, CA or CG; "" when not supported
CacheModifier(cache_modifier) ==
  IF cache_modifier = "" THEN "NONE"
  ELSE IF cache_modifier = ".ca" THEN "CA"
  ELSE IF cache_modifier = ".cg" THEN "CG"
  ELSE ""

\* the cache modifier and the volatile flag kept on a load instruction
LoadAttr(cache, is_volatile) ==
  IF ~is_volatile THEN cache
  ELSE IF cache = "CA" THEN "CA volatile"
  ELSE IF cache = "CG" THEN "CG volatile"
  ELSE "NONE volatile"

\* dispatch.cc:1488-1532; a null mask or other is NoVal
load(ptr0, mask0, other0, cache_modifier, is_volatile, em) ==
  IF ~is_pointer_ty(get_scalar_ty(ptr0.ty))
  THEN FailMsg(SemanticError, "Pointer argument of load instruction is", em)
  ELSE
  Bind(IF is_block_ty(ptr0.ty) /\ mask0 # NoVal
       THEN broadcast_shape(mask0, get_block_shapes(ptr0.ty), em) ELSE Ok(mask0, em), LAMBDA mask :
  Bind(IF is_block_ty(ptr0.ty) /\ other0 # NoVal
       THEN Bind(broadcast_shape(other0, get_block_shapes(ptr0.ty), mask.em), LAMBDA o :
              cast(o.val, get_pointer_element_ty(get_scalar_ty(ptr0.ty)), o.em))
       ELSE Ok(other0, mask.em), LAMBDA other :
  Bind(IF get_pointer_element_ty(get_scalar_ty(ptr0.ty)) = get_int1_ty
       THEN cast(ptr0, get_pointer_ty(get_int_ty(8), get_scalar_ty(ptr0.ty).elem.as), other.em)
       ELSE Ok(ptr0, other.em), LAMBDA ptr :
    LET elt_ty == IF get_pointer_element_ty(get_scalar_ty(ptr0.ty)) = get_int1_ty
                  THEN get_int_ty(8)
                  ELSE get_pointer_element_ty(get_scalar_ty(ptr0.ty))
        cache == CacheModifier(cache_modifier)
        attr == LoadAttr(CacheModifier(cache_modifier), is_volatile)
    IN  IF cache = "" THEN FailMsg(RuntimeError, "Cache modifier not supported", ptr.em)
        ELSE IF PlainLoad(mask.val, other.val)
        THEN Emit("load", <<ptr.val.ir>>, LoadIrTy(ptr.val.ir), attr, elt_ty, ptr.em)
        ELSE IF mask.val = NoVal
        THEN FailMsg(RuntimeError, "other cannot be provided without mask", ptr.em)
        ELSE Bind(IF other.val # NoVal THEN Ok(other.val, ptr.em)
                  ELSE IF is_block_ty(ptr.val.ty)
                  THEN Emit("splat", <<undef_value(get_ir_type(elt_ty))>>,
                            IrTy(elt_ty.elem, get_block_shapes(ptr.val.ty)), "",
                            get_type_from_ir_type(IrTy(elt_ty.elem, get_block_shapes(ptr.val.ty)),
                                                  SIGNED), ptr.em)
                  ELSE Ok(create_value_inferred(undef_value(get_ir_type(elt_ty))), ptr.em),
                  LAMBDA o :
               Emit("masked_load", <<ptr.val.ir, mask.val.ir, o.val.ir>>, LoadIrTy(ptr.val.ir),
                    attr, elt_ty, o.em)))))

\* dynamic_cast<ir::instruction*>: neither an argument nor a constant
IsInstruction(v) == v.op \notin {"input", "const", "undef"}

\* i->set_metadata(kind, value)
set_metadata(x, kind, value) == Val([x.ir EXCEPT !.meta = <<kind, value>>], x.ty)

\* dispatch.cc:1791-1797
multiple_of(x, value, em) ==
  IF ~IsInstruction(x.ir) THEN FailMsg(Unreachable, "multiple_of", em)
  ELSE Ok(set_metadata(x, "multiple_of", value), em)

\* dispatch.cc:1799-1805
max_contiguous(x, value, em) ==
  IF ~IsInstruction(x.ir) THEN FailMsg(Unreachable, "max_contiguous", em)
  ELSE Ok(set_metadata(x, "max_contiguous", value), em)

\* dispatch.cc:887-890
program_id(axis) == create_value(IrVal("get_program_id", <<>>, IrTy(IntIr(32), <<>>), axis),
                                 get_int_ty(32))

(***************************************************************************)
(*          Denotation of integer values: bit sequences, LSB first         *)
(***************************************************************************)
(*                            Linear algebra                               *)
(***************************************************************************)
\* the process is ended by a read outside an object
Fault == "fault"

\* get_block_shapes()[i - 1]: the dimension when the shape has one; a read
\* past the end of the vector otherwise, which faults (-1) or yields any
\* number
DimRead(shape, i) == IF i <= Len(shape) THEN {shape[i]} ELSE -1..MaxDim

\* ir::type::is_int_or_tileint_ty: an integer or a block of integers
is_int_or_tileint_ty(t) == t.elem.k = "int"

\* builder->get_int32(0), builder->get_float32(0)
get_int32(c) == IrVal("const", <<>>, IrTy(IntIr(32), <<>>), c)
get_float32(c) == IrVal("const", <<>>, IrTy(FpIr("fp32"), <<>>), c)

\* dispatch.cc:1669-1673: the zero of the accumulator
DotZero(lhs, rhs) ==
  IF is_int_or_tileint_ty(lhs.ty) THEN get_int32("0") ELSE get_float32("0")

\* dispatch.cc:1668-1680; M and N are what the reads of lines 1674-1675 gave
dot(lhs, rhs, allow_tf32, M, N, em) ==
  IF M = -1 \/ N = -1 THEN Fail(Fault, em)
  ELSE LET acc == IrVal("splat", <<DotZero(lhs, rhs)>>, IrTy(DotZero(lhs, rhs).ty.elem, <<M, N>>), "")
           ret == IrVal("dot", <<lhs.ir, rhs.ir, acc>>, acc.ty, IF allow_tf32 THEN "tf32" ELSE "")
       IN  Ok(create_value_inferred(ret), em \o <<acc, ret>>)

(***************************************************************************)
(*                              Reductions                                 *)
(***************************************************************************)
\* the type ir::reduce_inst gives its result: the operand's, without the
\* dimension of the axis (a scalar when no dimension is left)
ReduceIrTy(irty, axis) ==
  IrTy(irty.elem, [i \in 1..(Len(irty.shape) - 1) |->
                     IF i <= axis THEN irty.shape[i] ELSE irty.shape[i + 1]])

\* the op and the axis kept on a reduce instruction
AxisNames == <<"0", "1", "2", "3">>
ReduceAttr(op, axis) == op \o " axis " \o AxisNames[axis + 1]

\* variant: only integers of at most 8 bits are extended
ExtendedTo32_upto8(scalar_ty) == is_integer_ty(scalar_ty) /\ get_integer_bitwidth(scalar_ty) <= 8

\* dispatch.cc:1713: the input is extended to 32 bits
ExtendedTo32(scalar_ty) == is_integer_ty(scalar_ty) /\ get_integer_bitwidth(scalar_ty) <= 32

\* dispatch.cc:1707-1725
reduce_impl(input0, axis, name, FLOAT_OP, INT_OP, em) ==
  Bind(IF ExtendedTo32(get_scalar_ty(input0.ty)) THEN cast(input0, get_int_ty(32), em)
       ELSE Ok(input0, em), LAMBDA input :
    IF is_floating_point_ty(get_scalar_ty(input0.ty))
    THEN Emit("reduce", <<input.val.ir>>, ReduceIrTy(input.val.ir.ty, axis), ReduceAttr(FLOAT_OP, axis),
              get_type_from_ir_type(ReduceIrTy(input.val.ir.ty, axis),
                                    get_integer_signedness(input.val.ty)), input.em)
    ELSE IF is_integer_ty(get_scalar_ty(input0.ty))
    THEN Emit("reduce", <<input.val.ir>>, ReduceIrTy(input.val.ir.ty, axis), ReduceAttr(INT_OP, axis),
              get_type_from_ir_type(ReduceIrTy(input.val.ir.ty, axis),
                                    get_integer_signedness(input.val.ty)), input.em)
    ELSE FailMsg(Unreachable, name, input.em))

\* dispatch.cc:1727-1737
min(input, axis, em) == reduce_impl(input, axis, "min", "FMIN", "MIN", em)
max(input, axis, em) == reduce_impl(input, axis, "max", "FMAX", "MAX", em)
sum(input, axis, em) == reduce_impl(input, axis, "sum", "FADD", "ADD", em)

\* dispatch.cc:1739-1744
xor_sum(input, axis, em) ==
  IF ~is_integer_ty(get_scalar_ty(input.ty))
  THEN FailMsg(SemanticError, "xor_sum only supported for integers", em)
  ELSE reduce_impl(input, axis, "sum", "XOR", "XOR", em)

(***************************************************************************)
\* ir::builder::create_int_cast: truncation keeps the low bits, extension
\* repeats the sign bit when is_signed and pads with zeros otherwise
create_int_cast(bits, w, is_signed) ==
  IF w <= Len(bits) THEN SubSeq(bits, 1, w)
  ELSE bits \o [i \in 1..(w - Len(bits)) |-> IF is_signed THEN bits[Len(bits)] ELSE 0]

\* the value an ir value denotes when the input of the call denotes `bits`
RECURSIVE Eval(_, _)
Eval(v, bits) ==
  IF v.op = "input" THEN bits
  ELSE IF v.op = "int_cast"
  THEN create_int_cast(Eval(v.args[1], bits), v.ty.elem.w, v.attr = "sext")
  ELSE <<>>

(***************************************************************************)
(*                    The dispatcher as a state machine                    *)
(***************************************************************************)
\* the inputs of the dispatched calls
IntWidths == {1, 8, 16, 32, 64}
IntTys == {get_int_ty(w) : w \in IntWidths} \cup {get_uint_ty(w) : w \in IntWidths}
FpTys == {get_fp8_ty, get_fp16_ty, get_bf16_ty, get_fp32_ty, get_fp64_ty}
PtrTys == {get_pointer_ty(get_fp32_ty, 1)}
NumericTys == IntTys \cup FpTys
ScalarTys == NumericTys \cup PtrTys
Shapes == {<<>>} \cup UNION {[1..r -> 1..MaxDim] : r \in 1..MaxRank}
TypeOf(t, shape) == IF shape = <<>> THEN t ELSE get_block_ty(t, shape)

\* an operand handed to the dispatcher by the frontend
Input(name, t) == Val(IrVal("input", <<>>, get_ir_type(t), name), t)

\* values of an integer operand (of each element of a block): every value
\* of a narrow scalar, the boundary patterns otherwise
Patterns(w) ==
  { [i \in 1..w |-> 0], [i \in 1..w |-> 1],
    [i \in 1..w |-> IF i = w THEN 1 ELSE 0], [i \in 1..w |-> IF i = w THEN 0 ELSE 1],
    [i \in 1..w |-> IF i = 1 THEN 1 ELSE 0], [i \in 1..w |-> i % 2] }
BitsOf(t) ==
  IF t.elem.k # "int" THEN {<<>>}
  ELSE IF t.elem.w <= 8 /\ ~is_block_ty(t) THEN [1..t.elem.w -> {0, 1}]
  ELSE Patterns(t.elem.w)

DCall(op, a, b, flag, dst, bits) ==
  [op |-> op, a |-> a, b |-> b, c |-> NoVal, flag |-> flag, dst |-> dst, shape |-> <<>>,
   attr |-> "", n |-> 0, bits |-> bits]
\* a call with a third operand (NoVal when it is null), and a call with a shape
DCall3(op, a, b, c) == [DCall(op, a, b, FALSE, NoVal.ty, <<>>) EXCEPT !.c = c]
DCallShape(op, a, shape) == [DCall(op, a, NoVal, FALSE, NoVal.ty, <<>>) EXCEPT !.shape = shape]

ComputationTypeCalls ==
  {DCall("computation_type", Input("a", ta), Input("b", tb), f, NoVal.ty, <<>>) :
     ta \in NumericTys, tb \in NumericTys, f \in BOOLEAN}
BroadcastTys == {get_int_ty(32), get_uint_ty(8)}
\* the shapes given to the pairwise broadcast: one has a dimension that no
\* other shape has
BroadcastShapes == Shapes \cup {<<MaxDim + 1>>}
BroadcastCalls ==
  {DCall("broadcast", Input("a", TypeOf(ta, sa)), Input("b", TypeOf(tb, sb)), FALSE, NoVal.ty, <<>>) :
     ta \in BroadcastTys, tb \in BroadcastTys, sa \in BroadcastShapes, sb \in BroadcastShapes}
AddTys == PtrTys \cup {get_pointer_ty(get_int_ty(32), 1), get_int_ty(32), get_uint_ty(64), get_fp32_ty}
AddCalls ==
  {DCall("add", Input("a", TypeOf(ta, sa)), Input("b", TypeOf(tb, sb)), FALSE, NoVal.ty, <<>>) :
     ta \in AddTys, tb \in AddTys, sa \in Shapes, sb \in Shapes}
IntegerPromoteCalls ==
  {DCall("integer_promote", Input("a", ta), Input("b", tb), FALSE, NoVal.ty, <<>>) :
     ta \in IntTys, tb \in IntTys}
IsCastCall(c) ==
  \E ta \in ScalarTys, td \in ScalarTys, sa \in Shapes : \E bits \in BitsOf(TypeOf(ta, sa)) :
    c = DCall("cast", Input("a", TypeOf(ta, sa)), NoVal, FALSE, td, bits)

\* the operators of two operands, and the operands they are called with
BinaryOps ==
  {"add", "sub", "mul", "truediv", "floordiv", "fdiv", "mod", "and_", "or_", "xor_", "lshr", "shl",
   "greater_than", "greater_equal", "less_than", "less_equal", "equal", "not_equal"}
OpShapes == {s \in Shapes : Len(s) <= 1}
IsBinaryCall(c) ==
  \E op \in BinaryOps, ta \in ScalarTys, tb \in ScalarTys, sa \in OpShapes, sb \in OpShapes :
    \E flag \in (IF op = "fdiv" THEN BOOLEAN ELSE {FALSE}) :
      c = DCall(op, Input("a", TypeOf(ta, sa)), Input("b", TypeOf(tb, sb)), flag, NoVal.ty, <<>>)

\* atomic_max / atomic_min: pointers to int32, fp32 and fp64, values of the
\* numeric types of these widths, and a boolean mask or none
AtomicPointees == {get_int_ty(32), get_fp32_ty, get_fp64_ty}
AtomicValTys == {get_int_ty(32), get_uint_ty(32), get_fp32_ty, get_fp64_ty}
IsAtomicCall(c) ==
  \E op \in {"atomic_max", "atomic_min"}, tp \in AtomicPointees, tv \in AtomicValTys,
     sp \in OpShapes, sv \in OpShapes :
    \E m \in {NoVal} \cup {Input("c", TypeOf(get_int1_ty, sm)) : sm \in OpShapes} :
      c = DCall3(op, Input("a", TypeOf(get_pointer_ty(tp, 1), sp)), Input("b", TypeOf(tv, sv)), m)

\* shape-targeted broadcast and reshape: an operand and a target shape
BroadcastShapeCalls ==
  {DCallShape("broadcast_shape", Input("a", TypeOf(t, sa)), shape) :
     t \in BroadcastTys, sa \in Shapes, shape \in Shapes \ {<<>>}}
ReshapeCalls ==
  {DCallShape("reshape", Input("a", TypeOf(t, sa)), shape) :
     t \in BroadcastTys, sa \in Shapes \ {<<>>}, shape \in Shapes \ {<<>>}}

\* load: a pointer to fp32 or to int1 or a non-pointer, a mask or none, a
\* default value or none, a cache modifier and the volatile flag
LoadPtrTys == {get_pointer_ty(get_fp32_ty, 1), get_pointer_ty(get_int1_ty, 1), get_int_ty(32)}
CacheModifiers == {"", ".ca", ".cg", ".cv"}
IsLoadCall(c) ==
  \E tp \in LoadPtrTys, sp \in OpShapes, modifier \in CacheModifiers, is_volatile \in BOOLEAN :
    \E m \in {NoVal} \cup {Input("b", TypeOf(get_int1_ty, sm)) : sm \in OpShapes},
       o \in {NoVal, Input("c", get_fp32_ty)} :
      c = [DCall3("load", Input("a", TypeOf(tp, sp)), m, o)
             EXCEPT !.attr = modifier, !.flag = is_volatile]

\* multiple_of and max_contiguous: an argument, a constant or an instruction
HintOperands ==
  {Input("a", get_int_ty(32)), Input("a", get_pointer_ty(get_fp32_ty, 1)),
   create_value_inferred(get_int64("0")), program_id("0")}
HintCalls ==
  {[DCall(op, x, NoVal, FALSE, NoVal.ty, <<>>) EXCEPT !.n = value] :
     op \in {"multiple_of", "max_contiguous"}, x \in HintOperands, value \in {1, 8}}

\* dot: blocks and scalars of an integer and two floating types
DotTys == {get_int_ty(32), get_fp32_ty, get_fp16_ty}
DotCalls ==
  {DCall("dot", Input("a", TypeOf(ta, sa)), Input("b", TypeOf(tb, sb)), tf32, NoVal.ty, <<>>) :
     ta \in DotTys, tb \in DotTys, sa \in Shapes, sb \in Shapes, tf32 \in BOOLEAN}

\* the reductions: a block of any scalar type and an axis of the block
ReduceOps == {"sum", "min", "max", "xor_sum"}
ReduceCalls ==
  {[DCall(op, Input("a", TypeOf(ta, sa)), NoVal, FALSE, NoVal.ty, <<>>) EXCEPT !.n = axis] :
     op \in ReduceOps, ta \in ScalarTys, sa \in Shapes \ {<<>>}, axis \in 0..(MaxRank - 1)}

InitDispatch ==
  /\ \/ call \in ComputationTypeCalls \cup IntegerPromoteCalls \cup BroadcastCalls \cup AddCalls
     \/ IsCastCall(call)
     \/ IsBinaryCall(call)
     \/ IsAtomicCall(call)
     \/ call \in BroadcastShapeCalls \cup ReshapeCalls \cup HintCalls \cup DotCalls
     \/ call \in ReduceCalls /\ call.n < Len(get_block_shapes(call.a.ty))
     \/ IsLoadCall(call)
  /\ out = NoOut
  /\ fnlist = <<>> /\ fnBlocks = <<>> /\ blk = <<>> /\ callsites = <<>> /\ order = <<>>
  /\ pc = "off" /\ cur = NoFn /\ idx = 1 /\ nextId = 1 /\ nextBlk = 1 /\ insertPoint = 0
  /\ log = <<>> /\ last = "init"
  /\ ast_types_ = {} /\ ast_values_ = <<>> /\ lookups = <<>>

\* the outcome of a call that returns one value, or a pair of values
Returned(r) ==
  [err |-> r.err, msg |-> r.msg, vals |-> IF r.err = "none" THEN <<r.val>> ELSE <<>>, em |-> r.em]
ReturnedPair(r) ==
  [err |-> r.err, msg |-> r.msg, vals |-> IF r.err = "none" THEN r.val ELSE <<>>, em |-> r.em]
ReturnedType(r) ==
  [err |-> r.err, msg |-> r.msg, vals |-> IF r.err = "none" THEN <<Val(NoVal.ir, r.ty)>> ELSE <<>>, em |-> <<>>]

ComputationType ==
  /\ call.op = "computation_type" /\ out = NoOut
  /\ out' = ReturnedType(computation_type(call.a.ty, call.b.ty, call.flag))
  /\ UNCHANGED <<inlVars, call, ctxVars>>

IntegerPromote ==
  /\ call.op = "integer_promote" /\ out = NoOut
  /\ out' = ReturnedType(integer_promote(call.a.ty, call.b.ty))
  /\ UNCHANGED <<inlVars, call, ctxVars>>

Broadcast ==
  /\ call.op = "broadcast" /\ out = NoOut
  /\ out' = ReturnedPair(broadcast2(call.a, call.b, <<>>))
  /\ UNCHANGED <<inlVars, call, ctxVars>>

Add ==
  /\ call.op = "add" /\ out = NoOut
  /\ out' = Returned(add(call.a, call.b, <<>>))
  /\ UNCHANGED <<inlVars, call, ctxVars>>

Cast ==
  /\ call.op = "cast" /\ out = NoOut
  /\ out' = Returned(cast(call.a, call.dst, <<>>))
  /\ UNCHANGED <<inlVars, call, ctxVars>>

ReturnedBack(o, r) ==
  [err |-> r.err, msg |-> r.msg, vals |-> IF r.err = "none" THEN Append(o.vals, r.val) ELSE o.vals, em |-> r.em]

\* the result of the cast is cast back to the scalar type of the operand
CastBack ==
  /\ call.op = "cast" /\ out.err = "none" /\ Len(out.vals) = 1
  /\ out' = ReturnedBack(out, cast(out.vals[1], get_scalar_ty(call.a.ty), out.em))
  /\ UNCHANGED <<inlVars, call, ctxVars>>

Sub ==
  /\ call.op = "sub" /\ out = NoOut
  /\ out' = Returned(sub(call.a, call.b, <<>>))
  /\ UNCHANGED <<inlVars, call, ctxVars>>

Mul ==
  /\ call.op = "mul" /\ out = NoOut
  /\ out' = Returned(mul(call.a, call.b, <<>>))
  /\ UNCHANGED <<inlVars, call, ctxVars>>

Truediv ==
  /\ call.op = "truediv" /\ out = NoOut
  /\ out' = Returned(truediv(call.a, call.b, <<>>))
  /\ UNCHANGED <<inlVars, call, ctxVars>>

Floordiv ==
  /\ call.op = "floordiv" /\ out = NoOut
  /\ out' = Returned(floordiv(call.a, call.b, <<>>))
  /\ UNCHANGED <<inlVars, call, ctxVars>>

Mod ==
  /\ call.op = "mod" /\ out = NoOut
  /\ out' = Returned(mod(call.a, call.b, <<>>))
  /\ UNCHANGED <<inlVars, call, ctxVars>>

And ==
  /\ call.op = "and_" /\ out = NoOut
  /\ out' = Returned(and_(call.a, call.b, <<>>))
  /\ UNCHANGED <<inlVars, call, ctxVars>>

Or ==
  /\ call.op = "or_" /\ out = NoOut
  /\ out' = Returned(or_(call.a, call.b, <<>>))
  /\ UNCHANGED <<inlVars, call, ctxVars>>

Xor ==
  /\ call.op = "xor_" /\ out = NoOut
  /\ out' = Returned(xor_(call.a, call.b, <<>>))
  /\ UNCHANGED <<inlVars, call, ctxVars>>

Lshr ==
  /\ call.op = "lshr" /\ out = NoOut
  /\ out' = Returned(lshr(call.a, call.b, <<>>))
  /\ UNCHANGED <<inlVars, call, ctxVars>>

Shl ==
  /\ call.op = "shl" /\ out = NoOut
  /\ out' = Returned(shl(call.a, call.b, <<>>))
  /\ UNCHANGED <<inlVars, call, ctxVars>>

GreaterThan ==
  /\ call.op = "greater_than" /\ out = NoOut
  /\ out' = Returned(greater_than(call.a, call.b, <<>>))
  /\ UNCHANGED <<inlVars, call, ctxVars>>

GreaterEqual ==
  /\ call.op = "greater_equal" /\ out = NoOut
  /\ out' = Returned(greater_equal(call.a, call.b, <<>>))
  /\ UNCHANGED <<inlVars, call, ctxVars>>

LessThan ==
  /\ call.op = "less_than" /\ out = NoOut
  /\ out' = Returned(less_than(call.a, call.b, <<>>))
  /\ UNCHANGED <<inlVars, call, ctxVars>>

LessEqual ==
  /\ call.op = "less_equal" /\ out = NoOut
  /\ out' = Returned(less_equal(call.a, call.b, <<>>))
  /\ UNCHANGED <<inlVars, call, ctxVars>>

Equal ==
  /\ call.op = "equal" /\ out = NoOut
  /\ out' = Returned(equal(call.a, call.b, <<>>))
  /\ UNCHANGED <<inlVars, call, ctxVars>>

NotEqual ==
  /\ call.op = "not_equal" /\ out = NoOut
  /\ out' = Returned(not_equal(call.a, call.b, <<>>))
  /\ UNCHANGED <<inlVars, call, ctxVars>>

Fdiv ==
  /\ call.op = "fdiv" /\ out = NoOut
  /\ out' = Returned(fdiv(call.a, call.b, call.flag, <<>>))
  /\ UNCHANGED <<inlVars, call, ctxVars>>

AtomicMax ==
  /\ call.op = "atomic_max" /\ out = NoOut
  /\ out' = Returned(atomic_max(call.a, call.b, call.c, <<>>))
  /\ UNCHANGED <<inlVars, call, ctxVars>>

AtomicMin ==
  /\ call.op = "atomic_min" /\ out = NoOut
  /\ out' = Returned(atomic_min(call.a, call.b, call.c, <<>>))
  /\ UNCHANGED <<inlVars, call, ctxVars>>

BroadcastShape ==
  /\ call.op = "broadcast_shape" /\ out = NoOut
  /\ out' = Returned(broadcast_shape(call.a, call.shape, <<>>))
  /\ UNCHANGED <<inlVars, call, ctxVars>>

Reshape ==
  /\ call.op = "reshape" /\ out = NoOut
  /\ out' = Returned(reshape(call.a, call.shape, <<>>))
  /\ UNCHANGED <<inlVars, call, ctxVars>>

Load ==
  /\ call.op = "load" /\ out = NoOut
  /\ out' = Returned(load(call.a, call.b, call.c, call.attr, call.flag, <<>>))
  /\ UNCHANGED <<inlVars, call, ctxVars>>

MultipleOf ==
  /\ call.op = "multiple_of" /\ out = NoOut
  /\ out' = Returned(multiple_of(call.a, call.n, <<>>))
  /\ UNCHANGED <<inlVars, call, ctxVars>>

MaxContiguous ==
  /\ call.op = "max_contiguous" /\ out = NoOut
  /\ out' = Returned(max_contiguous(call.a, call.n, <<>>))
  /\ UNCHANGED <<inlVars, call, ctxVars>>

Dot ==
  /\ call.op = "dot" /\ out = NoOut
  /\ \E M \in DimRead(get_block_shapes(call.a.ty), 1), N \in DimRead(get_block_shapes(call.b.ty), 2) :
       out' = Returned(dot(call.a, call.b, call.flag, M, N, <<>>))
  /\ UNCHANGED <<inlVars, call, ctxVars>>

MinReduce ==
  /\ call.op = "min" /\ out = NoOut
  /\ out' = Returned(min(call.a, call.n, <<>>))
  /\ UNCHANGED <<inlVars, call, ctxVars>>

MaxReduce ==
  /\ call.op = "max" /\ out = NoOut
  /\ out' = Returned(max(call.a, call.n, <<>>))
  /\ UNCHANGED <<inlVars, call, ctxVars>>

Sum ==
  /\ call.op = "sum" /\ out = NoOut
  /\ out' = Returned(sum(call.a, call.n, <<>>))
  /\ UNCHANGED <<inlVars, call, ctxVars>>

XorSum ==
  /\ call.op = "xor_sum" /\ out = NoOut
  /\ out' = Returned(xor_sum(call.a, call.n, <<>>))
  /\ UNCHANGED <<inlVars, call, ctxVars>>

NextDispatch ==
  \/ ComputationType \/ IntegerPromote \/ Broadcast \/ Add \/ Cast \/ CastBack
  \/ Sub \/ Mul \/ Truediv \/ Floordiv \/ Fdiv \/ Mod
  \/ And \/ Or \/ Xor \/ Lshr \/ Shl
  \/ GreaterThan \/ GreaterEqual \/ LessThan \/ LessEqual \/ Equal \/ NotEqual
  \/ AtomicMax \/ AtomicMin
  \/ BroadcastShape \/ Reshape \/ Load \/ MultipleOf \/ MaxContiguous
  \/ Dot \/ MinReduce \/ MaxReduce \/ Sum \/ XorSum

SpecDispatch == InitDispatch /\ [][NextDispatch]_vars

(***************************************************************************)
(*                           The AST context                               *)
(***************************************************************************)
\* the largest number of calls made on one context
MaxLookups == 3

\* context.h:33-34: the default argument sn = type::signedness::SIGNED
DefaultSignedness == SIGNED

\* variant: the key of ast_types_ is the IR type alone
Key_ir_type(irty, sn) == <<irty, DefaultSignedness>>

\* context.h:36: the key of ast_types_, std::pair<ir::type*, type::signedness>
Key(irty, sn) == <<irty, sn>>

\* ast_types_.find(key): the entries of the map under a key (none or one)
Entries(types, key) == {e \in types : e.key = key}

\* ast_types_ after a look-up: a key that is missing gets a new type object,
\* a key that is present keeps its own
Interned(types, irty, sn) ==
  IF Entries(types, Key(irty, sn)) # {} THEN types
  ELSE types \cup {[key |-> Key(irty, sn),
                    obj |-> [id |-> Cardinality(types) + 1, ty |-> AstTy(irty, sn)]]}

\* ast_types_[key].get(): the type object owned by the map under the key
TypeAt(types, irty, sn) == (CHOOSE e \in Entries(types, Key(irty, sn)) : TRUE).obj

\* the IR types and IR values handed to the context
CtxIrTys == {IrTy(IntIr(32), <<>>), IrTy(IntIr(32), <<MaxDim>>)}
CtxIrValues == {IrVal("input", <<>>, t, "x") : t \in CtxIrTys}
\* the signedness argument of a look-up: given, or left to its default
SignednessArgs == {SIGNED, UNSIGNED, "default"}
SignednessOf(arg) == IF arg = "default" THEN DefaultSignedness ELSE arg

\* a look-up made by op: the map after it and the record of the call
LookedUp(op, irty, arg) ==
  /\ Len(lookups) < MaxLookups
  /\ ast_types_' = Interned(ast_types_, irty, SignednessOf(arg))
  /\ lookups' = Append(lookups, [op |-> op, irty |-> irty, sn |-> arg,
                                 ty |-> TypeAt(ast_types_', irty, SignednessOf(arg))])

InitContext ==
  /\ ast_types_ = {} /\ ast_values_ = <<>> /\ lookups = <<>>
  /\ call = NoCall /\ out = NoOut
  /\ fnlist = <<>> /\ fnBlocks = <<>> /\ blk = <<>> /\ callsites = <<>> /\ order = <<>>
  /\ pc = "off" /\ cur = NoFn /\ idx = 1 /\ nextId = 1 /\ nextBlk = 1 /\ insertPoint = 0
  /\ log = <<>> /\ last = "init"

\* context::get_type_from_ir_type(ir::type*, sn = SIGNED)
GetTypeFromIrType ==
  /\ \E irty \in CtxIrTys, arg \in SignednessArgs : LookedUp("get_type_from_ir_type", irty, arg)
  /\ UNCHANGED <<inlVars, dspVars, ast_values_>>

\* context::get_type_from_ir(ir::value*, sn = SIGNED)
GetTypeFromIr ==
  /\ \E v \in CtxIrValues, arg \in SignednessArgs : LookedUp("get_type_from_ir", v.ty, arg)
  /\ UNCHANGED <<inlVars, dspVars, ast_values_>>

\* context::create_value(ir::value*): the type is looked up from the value's
\* IR type with the default signedness
CreateValueInferred ==
  /\ \E v \in CtxIrValues :
       /\ LookedUp("create_value", v.ty, "default")
       /\ ast_values_' = Append(ast_values_, [ir |-> v, ty |-> lookups'[Len(lookups')].ty])
  /\ UNCHANGED <<inlVars, dspVars>>

\* context::create_value(ir::value*, type*): the type is one the context owns
CreateValue ==
  /\ Len(lookups) < MaxLookups
  /\ \E v \in CtxIrValues, e \in ast_types_ :
       /\ ast_values_' = Append(ast_values_, [ir |-> v, ty |-> e.obj])
       /\ lookups' = Append(lookups, [op |-> "create_value", irty |-> v.ty, sn |-> "given",
                                      ty |-> e.obj])
  /\ UNCHANGED <<inlVars, dspVars, ast_types_>>

NextContext == GetTypeFromIrType \/ GetTypeFromIr \/ CreateValueInferred \/ CreateValue

SpecContext == InitContext /\ [][NextContext]_vars

(***************************************************************************)
(*                      Properties of the inliner                          *)
(***************************************************************************)
\* the do_inline call that has just returned
JustInlined == last = "inline"
R == log[Len(log)]

InstById(id) == LET b == ParentOf(blk, id) IN blk[b].insts[PosIn(blk, b, id)]

\* value-carrying returns held by a block
ValueRets(b) == {i \in DOMAIN blk[b].insts :
                   blk[b].insts[i].op = "ret" /\ blk[b].insts[i].ops # <<>>}

Count(s, x) == Cardinality({i \in DOMAIN s : s[i] = x})

InlinedSites == {log[i].callsite : i \in DOMAIN log}

ExitPhis(r) == {i \in DOMAIN blk[r.exit].insts : blk[r.exit].insts[i].id = r.exit_val}

\* C1: after do_inline, the exit phi has exactly one incoming per
\* value-carrying return of the callee, each from the caller-side counterpart
\* of the callee block that held the return (entry for the first block).
C1_PhiIncomings ==
  JustInlined =>
    LET phi == InstById(R.exit_val)
    IN  /\ Cardinality(ExitPhis(R)) = 1
        /\ blk[R.exit].insts[1].op = "phi"
        /\ phi.op = "phi"
        /\ Len(phi.inc) = Len(phi.ops)
        /\ \A i \in DOMAIN R.old_blocks :
             Count(phi.inc, R.new_blocks[i]) = Cardinality(ValueRets(R.old_blocks[i]))
        /\ \A j \in DOMAIN phi.inc : phi.inc[j] \in Range(R.new_blocks)
        /\ R.new_blocks[1] = R.entry

C1_Witness ==
  /\ JustInlined
  /\ Len(InstById(R.exit_val).inc) = 2
  /\ InstById(R.exit_val).inc[1] # InstById(R.exit_val).inc[2]
  /\ InstById(R.exit_val).inc[1] \in Range(R.new_blocks)

\* C2: run removes every function that is the callee of a recorded call
\* site, only after every call site recorded for it at that moment went
\* through do_inline; functions that are never called stay in the module.
C2_RemovedOnlyAfterInlined ==
  \A f \in Range(fnlist) :
    f \notin Range(fnlist') =>
      /\ f \in DOMAIN callsites
      /\ callsites[f] # <<>>
      /\ Range(callsites[f]) \subseteq InlinedSites

C2_DoneRemoved ==
  pc = "done" => \A f \in Fns : (f \in DOMAIN callsites) <=> (f \notin Range(fnlist))

C2_Removal == [](C2_DoneRemoved) /\ [][C2_RemovedOnlyAfterInlined]_vars

C2_Witness ==
  /\ pc = "done"
  /\ "F" \notin Range(fnlist)
  /\ "G" \in Range(fnlist)
  /\ Len(log) = 2

\* the actual argument that stands for a value of the callee
Actual(r, v) ==
  IF \E k \in DOMAIN r.src_args : r.src_args[k] = v
  THEN r.tgt_args[CHOOSE k \in DOMAIN r.src_args : r.src_args[k] = v]
  ELSE v

\* C3: in the spliced code every use of the callee's k-th formal argument,
\* in a cloned instruction or as an incoming of the exit phi, is the k-th
\* actual argument of the call; no use of a formal argument remains.
C3_FormalsReplaced ==
  JustInlined =>
    /\ \A m \in DOMAIN R.map :
         LET old == InstById(R.map[m].old)
             new == InstById(R.map[m].new)
         IN  /\ \A t \in DOMAIN new.ops : new.ops[t] \notin Range(R.src_args)
             /\ old.op # "ret" => \A t \in DOMAIN old.ops : new.ops[t] = Actual(R, old.ops[t])
    /\ \A t \in DOMAIN InstById(R.exit_val).ops :
         InstById(R.exit_val).ops[t] \notin Range(R.src_args)

\* C4: after do_inline the entry block, every cloned block and the exit
\* block end with exactly one terminator and hold no other one, and every
\* branch target of a cloned instruction is a block of the caller: the
\* counterpart of the callee's block, or exit.
EndsWithOneTerminator(b) ==
  /\ blk[b].insts # <<>>
  /\ \A i \in DOMAIN blk[b].insts : IsTerminator(blk[b].insts[i]) <=> i = Len(blk[b].insts)

Counterpart(r, b) ==
  IF \E k \in DOMAIN r.old_blocks : r.old_blocks[k] = b
  THEN r.new_blocks[CHOOSE k \in DOMAIN r.old_blocks : r.old_blocks[k] = b]
  ELSE b

C4_WellFormedCFG ==
  JustInlined =>
    /\ \A b \in Range(R.new_blocks) \cup {R.exit} :
         /\ EndsWithOneTerminator(b)
         /\ blk[b].parent = R.caller
         /\ b \in Range(fnBlocks[R.caller])
    /\ \A m \in DOMAIN R.map :
         LET old == InstById(R.map[m].old)
             new == InstById(R.map[m].new)
         IN  /\ \A t \in DOMAIN new.tgts :
                  /\ blk[new.tgts[t]].parent = R.caller
                  /\ new.tgts[t] \notin Range(R.old_blocks)
             /\ IF old.op = "ret" THEN new.tgts = <<R.exit>>
                ELSE new.tgts = [t \in DOMAIN old.tgts |-> Counterpart(R, old.tgts[t])]

C4_Witness ==
  /\ JustInlined
  /\ \E m \in DOMAIN R.map :
       /\ InstById(R.map[m].new).op = "condbr"
       /\ Len(InstById(R.map[m].new).tgts) = 2
  /\ Len(R.new_blocks) = 3

\* blocks reachable from b along branches without entering `cut`
RECURSIVE ReachAvoiding(_, _, _)
ReachAvoiding(seen, frontier, cut) ==
  IF frontier = {} THEN seen
  ELSE LET nxt == UNION {Range(Successors(blk, b)) : b \in frontier} \ (seen \cup {cut})
       IN  ReachAvoiding(seen \cup nxt, nxt, cut)

BlockDominates(f, d, u) ==
  LET e == fnBlocks[f][1]
  IN  d = u \/ e = d \/ u \notin ReachAvoiding({e}, {e}, d)

\* the definition of value v is in function f and dominates position i of block u
DefDominates(f, v, u, i) ==
  CASE v.k = "const" -> TRUE
    [] v.k = "arg"   -> v.fn = f
    [] OTHER ->
         /\ \E b \in DOMAIN blk : \E j \in DOMAIN blk[b].insts : blk[b].insts[j].id = v.n
         /\ LET d == ParentOf(blk, v.n)
            IN  /\ blk[d].parent = f
                /\ IF d = u THEN PosIn(blk, d, v.n) < i ELSE BlockDominates(f, d, u)

\* C5: after do_inline every operand of a cloned instruction and every
\* incoming of the exit phi is defined in the caller by a definition that
\* dominates the use; a cloned use of an earlier instruction of the callee
\* is a use of that instruction's clone.
C5_DefsDominateUses ==
  JustInlined =>
    /\ \A m \in DOMAIN R.map :
         LET new == InstById(R.map[m].new)
             b   == R.map[m].blk
         IN  \A t \in DOMAIN new.ops :
               IF new.op = "phi"
               THEN DefDominates(R.caller, new.ops[t], new.inc[t], Len(blk[new.inc[t]].insts) + 1)
               ELSE DefDominates(R.caller, new.ops[t], b, PosIn(blk, b, new.id))
    /\ LET phi == InstById(R.exit_val)
       IN  \A t \in DOMAIN phi.ops :
             DefDominates(R.caller, phi.ops[t], phi.inc[t], Len(blk[phi.inc[t]].insts) + 1)

\* C6: every call produced by cloning is appended to the callsite map under
\* its callee, and when run returns every call site that was ever in the map
\* has been inlined, whatever the iteration order of the map.
C6_AllSitesInlined ==
  /\ JustInlined =>
       \A m \in DOMAIN R.map :
         LET new == InstById(R.map[m].new)
         IN  new.op = "call" =>
               /\ new.callee \in DOMAIN callsites
               /\ new.id \in Range(callsites[new.callee])
  /\ pc = "done" =>
       \A f \in DOMAIN callsites : Range(callsites[f]) \subseteq InlinedSites

(***************************************************************************)
(*                     Properties of the dispatcher                        *)
(***************************************************************************)
\* C7: for every scalar numeric type a (every float kind, fp8 and bf16
\* included, and every integer kind of either signedness) and either value
\* of div_or_mod, computation_type(a, a, flag) returns a without raising,
\* except that it returns fp32 for fp16 with div_or_mod set.
C7_PromotionIdempotence ==
  (call.op = "computation_type" /\ out # NoOut /\ call.a.ty = call.b.ty) =>
     /\ out.err = "none"
     /\ out.vals[1].ty = IF is_fp16_ty(call.a.ty) /\ call.flag THEN get_fp32_ty ELSE call.a.ty

\* the dimensions of two shapes of equal rank are pairwise (1,k), (k,1), (k,k)
Compatible(la, lb) ==
  /\ Len(la) = Len(lb)
  /\ \A i \in DOMAIN la : la[i] = 1 \/ lb[i] = 1 \/ la[i] = lb[i]

\* C8: the pairwise broadcast of two blocks of equal rank and compatible
\* dimensions returns two values whose frontend types both carry the common
\* shape S, S[i] = max(lhs[i], rhs[i]); for a block and a scalar the
\* returned scalar side has a block frontend type of the block's shape.
C8_BroadcastCompleteness ==
  (call.op = "broadcast" /\ out # NoOut) =>
    LET la == get_block_shapes(call.a.ty)
        lb == get_block_shapes(call.b.ty)
        S  == [i \in DOMAIN la |-> Max({la[i], lb[i]})]
    IN  /\ (la # <<>> /\ lb # <<>> /\ Compatible(la, lb)) =>
             /\ out.err = "none"
             /\ get_block_shapes(out.vals[1].ty) = S
             /\ get_block_shapes(out.vals[2].ty) = S
        /\ (la # <<>> /\ lb = <<>>) =>
             /\ out.err = "none"
             /\ out.vals[1].ty = call.a.ty
             /\ is_block_ty(out.vals[2].ty)
             /\ get_block_shapes(out.vals[2].ty) = la
        /\ (la = <<>> /\ lb # <<>>) =>
             /\ out.err = "none"
             /\ out.vals[2].ty = call.b.ty
             /\ is_block_ty(out.vals[1].ty)
             /\ get_block_shapes(out.vals[1].ty) = lb

\* one operand of the call is a pointer (scalar or block), the other an
\* integer, and their shapes broadcast together
PtrAndOffset(p, o) ==
  /\ p.ty.elem.k = "ptr" /\ o.ty.elem.k = "int"
  /\ \/ ~is_block_ty(p.ty) \/ ~is_block_ty(o.ty)
     \/ Compatible(get_block_shapes(p.ty), get_block_shapes(o.ty))

\* C9: for a pointer ptr and an integer off, add(ptr, off) and add(off, ptr)
\* emit the same instruction gep(ptr, off) and return a value of the same
\* frontend type, the pointer type; neither emits an integer add.  Stated
\* for the call in either operand order: its last instruction is a gep
\* whose first operand is the pointer and second the offset, the value
\* returned is that instruction with a pointer frontend type.
C9_PointerAddSymmetry ==
  (/\ call.op = "add" /\ out # NoOut
   /\ PtrAndOffset(call.a, call.b) \/ PtrAndOffset(call.b, call.a)) =>
    LET emitted == out.em[Len(out.em)]
    IN  /\ out.err = "none"
        /\ out.em # <<>>
        /\ emitted.op = "gep"
        /\ emitted.args[1].ty.elem.k = "ptr"
        /\ emitted.args[2].ty.elem.k = "int"
        /\ out.vals[1].ir = emitted
        /\ out.vals[1].ty.elem.k = "ptr"
        /\ \A i \in DOMAIN out.em : out.em[i].op # "add"

\* the case of the round trip: integer source and destination of the same
\* signedness, the destination at least as wide
RoundTripCase ==
  /\ call.op = "cast"
  /\ call.a.ty.elem.k = "int" /\ call.dst.elem.k = "int"
  /\ call.a.ty.sn = call.dst.sn
  /\ call.a.ty.elem.w <= call.dst.elem.w

\* C10: for integer types of the same signedness and widths w1 <= w2,
\* cast(cast(v, w2), w1) denotes the same w1-bit value as v: the widening
\* int_cast sign-extends iff the source is signed and not int1 and
\* zero-extends otherwise, the narrowing int_cast keeps the low w1 bits, and
\* when w1 = w2 both casts return v itself and emit nothing.
C10_CastRoundTrip ==
  RoundTripCase =>
    LET w1 == call.a.ty.elem.w
        w2 == call.dst.elem.w
        sext == call.a.ty.sn = SIGNED /\ w1 # 1
        wide == [i \in 1..w2 |-> IF i <= w1 THEN call.bits[i]
                                 ELSE IF sext THEN call.bits[w1] ELSE 0]
    IN  /\ out.err = "none"
        /\ (Len(out.vals) >= 1 /\ w1 = w2) => out.vals[1] = call.a /\ out.em = <<>>
        /\ (Len(out.vals) = 2 /\ w1 = w2) => out.vals[2] = call.a
        /\ (Len(out.vals) >= 1 /\ w1 < w2) =>
             /\ out.em[1] = IrVal("int_cast", <<call.a.ir>>,
                                  IrTy(IntIr(w2), get_block_shapes(call.a.ty)), CastFlag(sext))
             /\ out.vals[1].ir = out.em[1]
             /\ Eval(out.vals[1].ir, call.bits) = wide
        /\ (Len(out.vals) = 2 /\ w1 < w2) =>
             /\ Len(out.em) = 2
             /\ out.em[2].op = "int_cast" /\ out.em[2].args = <<out.em[1]>>
             /\ out.vals[2].ir = out.em[2]
             /\ out.vals[2].ty = call.a.ty
             /\ Eval(out.vals[2].ir, call.bits) = SubSeq(wide, 1, w1)
             /\ Eval(out.vals[2].ir, call.bits) = call.bits

\* a negative value of a signed type wider than one bit went through both casts
C10_Witness ==
  /\ RoundTripCase
  /\ call.a.ty.elem.w < call.dst.elem.w
  /\ call.a.ty.sn = SIGNED /\ call.a.ty.elem.w # 1
  /\ call.bits[call.a.ty.elem.w] = 1
  /\ Len(out.vals) = 2

\* the instructions through which an operand reaches the operator: the
\* implicit broadcast and the implicit casts
ConversionOps ==
  {"splat", "broadcast", "fp_trunc", "fp_ext", "int_cast", "fp_to_ui", "fp_to_si",
   "ui_to_fp", "si_to_fp", "PtrToInt", "IntToPtr", "BitCast"}

\* the null constant of unary minus, possibly broadcast
IsNull(v) == v.op = "const" \/ (v.op = "splat" /\ v.args[1].op = "const")

\* v is the operand `name` of the call after its implicit broadcast and
\* casts (for the offset of ptr - offset: after its negation 0 - offset)
RECURSIVE DerivedFrom(_, _)
DerivedFrom(v, name) ==
  \/ v.op = "input" /\ v.attr = name
  \/ v.op \in ConversionOps /\ DerivedFrom(v.args[1], name)
  \/ v.op = "sub" /\ IsNull(v.args[1]) /\ DerivedFrom(v.args[2], name)

\* a binary operator has returned
BinaryReturned == call.op \in BinaryOps /\ out # NoOut /\ out.err = "none"

\* add called with a pointer as `other` and a non-pointer as `input`
OffsetPlusPointer ==
  call.op = "add" /\ call.b.ty.elem.k = "ptr" /\ call.a.ty.elem.k # "ptr"

\* C11 as stated: for every dispatched binary operator, the instruction
\* that computes the result takes as first operand the value derived from
\* `input` and as second operand the value derived from `other`, each after
\* its implicit broadcast and cast; operands are never exchanged.
C11_OperandOrder_AsStated ==
  BinaryReturned =>
    /\ Len(out.vals[1].ir.args) = 2
    /\ DerivedFrom(out.vals[1].ir.args[1], "a")
    /\ DerivedFrom(out.vals[1].ir.args[2], "b")

\* C11: for every dispatched binary operator, the instruction that computes
\* the result is the last one emitted and takes the value derived from
\* `input` first and the value derived from `other` second, each after its
\* implicit broadcast and cast (for ptr - offset the second operand of the
\* gep is 0 - offset); the one exception is add called with a pointer as
\* `other` and a non-pointer `input`, whose instruction takes the pointer
\* (derived from `other`) first and the offset (derived from `input`) second.
C11_OperandOrder ==
  BinaryReturned =>
    /\ out.em # <<>> /\ out.vals[1].ir = out.em[Len(out.em)]
    /\ Len(out.vals[1].ir.args) = 2
    /\ IF OffsetPlusPointer
       THEN /\ DerivedFrom(out.vals[1].ir.args[1], "b")
            /\ DerivedFrom(out.vals[1].ir.args[2], "a")
       ELSE /\ DerivedFrom(out.vals[1].ir.args[1], "a")
            /\ DerivedFrom(out.vals[1].ir.args[2], "b")

\* a multiplication of operands that were both broadcast or cast has returned
C11_Witness ==
  /\ BinaryReturned /\ call.op = "mul"
  /\ Len(out.em) = 3
  /\ out.vals[1].ir.args[1].op \in ConversionOps
  /\ out.vals[1].ir.args[2].op \in ConversionOps

\* integer_promote has returned or thrown
PromoteDone == call.op = "integer_promote" /\ out # NoOut

\* C12: integer_promote(a, b) on integer types returns, without reaching
\* its unreachable branch, one of its two arguments: with equal signedness
\* the one of larger bit width (the two are the same type when the widths
\* are equal); with different signedness the unsigned one when its width is
\* at least the signed one's, and the signed one otherwise.
C12_IntegerPromote ==
  PromoteDone =>
    LET a == call.a.ty
        b == call.b.ty
        u == IF a.sn = UNSIGNED THEN a ELSE b
        s == IF a.sn = UNSIGNED THEN b ELSE a
    IN  /\ out.err = "none"
        /\ out.vals[1].ty \in {a, b}
        /\ a.sn = b.sn =>
             /\ out.vals[1].ty.elem.w >= a.elem.w
             /\ out.vals[1].ty.elem.w >= b.elem.w
        /\ a.sn # b.sn =>
             out.vals[1].ty = IF u.elem.w >= s.elem.w THEN u ELSE s

\* integer_promote has returned the unsigned one of two types of the same
\* width and different signedness
C12_Witness ==
  /\ PromoteDone
  /\ call.a.ty.sn = SIGNED /\ call.b.ty.sn = UNSIGNED
  /\ call.a.ty.elem.w = call.b.ty.elem.w
  /\ out.vals[1].ty = call.b.ty

\* computation_type has returned or thrown
ComputationTypeDone == call.op = "computation_type" /\ out # NoOut

\* the scalar element kinds of the two operands of the call
OperandKinds == {call.a.ty.elem.k, call.b.ty.elem.k}

\* C13: computation_type(a, b, div_or_mod) returns fp64 if either operand
\* is fp64; otherwise fp32 if either is fp32; otherwise, if either is fp16,
\* fp32 when div_or_mod is set and fp16 when it is not; otherwise both
\* operands are integers and it returns integer_promote(a, b).  In the float
\* cases the call with the operands exchanged returns the same type.
C13_ComputationLadder ==
  ComputationTypeDone =>
    /\ out.err = "none"
    /\ IF "fp64" \in OperandKinds THEN out.vals[1].ty = get_fp64_ty
       ELSE IF "fp32" \in OperandKinds THEN out.vals[1].ty = get_fp32_ty
       ELSE IF "fp16" \in OperandKinds
            THEN out.vals[1].ty = IF call.flag THEN get_fp32_ty ELSE get_fp16_ty
       ELSE /\ OperandKinds = {"int"}
            /\ out.vals[1].ty = integer_promote(call.a.ty, call.b.ty).ty
    /\ OperandKinds \cap {"fp64", "fp32", "fp16"} # {} =>
         out.vals[1].ty = computation_type(call.b.ty, call.a.ty, call.flag).ty

CastOps ==
  {"fp_trunc", "fp_ext", "int_cast", "fp_to_ui", "fp_to_si", "ui_to_fp", "si_to_fp",
   "PtrToInt", "IntToPtr", "BitCast"}
DivisionOps == {"fdiv", "sdiv", "udiv", "srem", "urem", "frem"}

\* the operands of the call can be broadcast to a common shape
Broadcastable(a, b) ==
  \/ ~is_block_ty(a.ty) \/ ~is_block_ty(b.ty)
  \/ Compatible(get_block_shapes(a.ty), get_block_shapes(b.ty))

\* truediv, floordiv or mod was called on integers of different signedness
MixedSignednessDivision ==
  /\ call.op \in {"truediv", "floordiv", "mod"} /\ out # NoOut
  /\ call.a.ty.elem.k = "int" /\ call.b.ty.elem.k = "int"
  /\ call.a.ty.sn # call.b.ty.sn
  /\ Broadcastable(call.a, call.b)

\* C14: truediv, floordiv and mod applied to two integer operands of
\* different signedness fail with SemanticError whose message mentions
\* signedness; the call emits no division or remainder instruction and no
\* implicit cast.
C14_MixedSignednessRejected ==
  MixedSignednessDivision =>
    /\ out.err = SemanticError
    /\ out.msg = "different signedness"
    /\ \A i \in DOMAIN out.em : out.em[i].op \notin DivisionOps \cup CastOps

\* mod(uint32, int32) has been rejected
C14_Witness ==
  /\ MixedSignednessDivision /\ call.op = "mod"
  /\ call.a.ty = get_uint_ty(32) /\ call.b.ty = get_int_ty(32)
  /\ out.err = SemanticError

\* add, sub or mul was called on two non-pointer operands
ArithmeticOnNumbers ==
  /\ call.op \in {"add", "sub", "mul"} /\ out # NoOut
  /\ call.a.ty.elem.k # "ptr" /\ call.b.ty.elem.k # "ptr"
  /\ Broadcastable(call.a, call.b)

\* the instruction of each operator for floating and for integer operands
FloatOpOf == [add |-> "fadd", sub |-> "fsub", mul |-> "fmul"]
IntOpOf == [add |-> "add", sub |-> "sub", mul |-> "mul"]

\* C15: for add, sub and mul on two non-pointer operands, with
\* T = computation_type(scalar(input), scalar(other), div_or_mod = false):
\* the call returns, the instruction it emits is the float instruction
\* (fadd/fsub/fmul) when T is floating and the integer instruction
\* (add/sub/mul) otherwise, both operands of the instruction have T's
\* element type, and the scalar frontend type of the result is T, with T's
\* signedness when T is an integer type.
C15_ArithmeticCastsToT ==
  ArithmeticOnNumbers =>
    LET T == computation_type(get_scalar_ty(call.a.ty), get_scalar_ty(call.b.ty), FALSE)
    IN  /\ T.err = "none"
        /\ out.err = "none"
        /\ out.vals[1].ir.op = IF is_floating_point_ty(T.ty) THEN FloatOpOf[call.op]
                                                              ELSE IntOpOf[call.op]
        /\ \A i \in 1..2 : out.vals[1].ir.args[i].ty.elem = get_ir_type(T.ty).elem
        /\ get_scalar_ty(out.vals[1].ty).elem = T.ty.elem
        /\ is_integer_ty(T.ty) => get_scalar_ty(out.vals[1].ty).sn = T.ty.sn

\* truediv has returned
TruedivReturned ==
  call.op = "truediv" /\ out # NoOut /\ out.err = "none"

\* the fdiv instructions the call emitted
FdivsEmitted == {i \in DOMAIN out.em : out.em[i].op = "fdiv"}

\* one fdiv is emitted, its operands have the same floating element type,
\* and the value returned is that instruction, typed with that element type
OneFdivOfOneFloatType ==
  /\ Cardinality(FdivsEmitted) = 1
  /\ out.vals[1].ir = out.em[Len(out.em)]
  /\ out.vals[1].ir.op = "fdiv"
  /\ out.vals[1].ir.args[1].ty.elem = out.vals[1].ir.args[2].ty.elem
  /\ out.vals[1].ir.args[1].ty.elem.k \in FloatKinds
  /\ get_scalar_ty(out.vals[1].ty).elem = out.vals[1].ir.args[1].ty.elem

\* the operand of larger mantissa among two floating operands
WiderFloat(a, b) ==
  IF get_fp_mantissa_width(get_scalar_ty(a)) > get_fp_mantissa_width(get_scalar_ty(b))
  THEN a ELSE b

\* C16 as stated: truediv on accepted operands emits exactly one fdiv
\* whose operands have the same floating type and returns that type: fp32
\* for integer/integer, the float side's type for float/int and int/float,
\* and for float/float the type of the side with the larger mantissa.
C16_Truediv_AsStated ==
  TruedivReturned =>
    /\ OneFdivOfOneFloatType
    /\ out.vals[1].ty.elem =
         IF call.a.ty.elem.k = "int" /\ call.b.ty.elem.k = "int" THEN get_fp32_ty.elem
         ELSE IF call.b.ty.elem.k = "int" THEN call.a.ty.elem
         ELSE IF call.a.ty.elem.k = "int" THEN call.b.ty.elem
         ELSE WiderFloat(call.a.ty, call.b.ty).elem

\* C16: truediv on accepted operands emits exactly one fdiv whose operands
\* have the same floating element type and returns a value of that element
\* type: fp32 for integer/integer; otherwise both operands are first cast
\* to computation_type(scalar(input), scalar(other), div_or_mod = true),
\* which is fp64 if either is fp64 and fp32 in every other accepted case
\* (an fp16 operand is promoted to fp32), and that is the type returned.
C16_Truediv ==
  TruedivReturned =>
    /\ OneFdivOfOneFloatType
    /\ out.vals[1].ty.elem =
         IF call.a.ty.elem.k = "int" /\ call.b.ty.elem.k = "int" THEN get_fp32_ty.elem
         ELSE IF "fp64" \in OperandKinds THEN get_fp64_ty.elem
         ELSE get_fp32_ty.elem

\* truediv of two integers has returned the quotient of two casts to fp32
C16_Witness ==
  /\ TruedivReturned
  /\ call.a.ty.elem.k = "int" /\ call.b.ty.elem.k = "int"
  /\ out.vals[1].ir.args[1].op \in {"si_to_fp", "ui_to_fp"}
  /\ out.vals[1].ir.args[2].op \in {"si_to_fp", "ui_to_fp"}
  /\ out.vals[1].ty.elem = get_fp32_ty.elem

\* atomic_max or atomic_min was called with a value of the pointee's type
AtomicDone ==
  /\ call.op \in {"atomic_max", "atomic_min"} /\ out # NoOut
  /\ get_scalar_ty(call.b.ty) = get_pointer_element_ty(get_scalar_ty(call.a.ty))

\* the atomic rmw instructions the call emitted, in order
RmwsEmitted == SelectSeq(out.em, LAMBDA i : i.op = "atomic_rmw")

\* the operations of the float case: for the lanes val >= 0, for the lanes val < 0
PosOp == IF call.op = "atomic_max" THEN "Max" ELSE "Min"
NegOp == IF call.op = "atomic_max" THEN "UMin" ELSE "UMax"

\* v is the conjunction of the mask and the comparison cmp of the value with 0
MaskAnd(v, cmp) ==
  /\ v.op = "and" /\ Len(v.args) = 2
  /\ v.args[2].op = cmp

\* an rmw of the float case: on the pointer reinterpreted as int32*, with
\* the value reinterpreted as int32, under mask AND comparison
FloatRmw(r, op, cmp) ==
  /\ r.attr = op
  /\ r.args[1].op = "BitCast" /\ r.args[1].ty.elem = PtrIr(IntIr(32), 1)
  /\ r.args[2].op = "BitCast" /\ r.args[2].ty.elem = IntIr(32)
  /\ MaskAnd(r.args[3], cmp)

\* C17: atomic_max and atomic_min on a float pointee emit exactly two
\* atomic rmw instructions on the pointer reinterpreted as int32*, with the
\* value reinterpreted as int32: the first is the signed Max (Min for
\* atomic_min) under mask AND (val >= 0), the second the unsigned UMin (UMax
\* for atomic_min) under mask AND (val < 0), and the result is
\* select(val >= 0, first, second).  On an integer pointee a single rmw is
\* emitted: Max/Min when the value type is signed, UMax/UMin when unsigned.
C17_AtomicMaxMin ==
  AtomicDone =>
    /\ out.err = "none"
    /\ IF call.b.ty.elem.k \in FloatKinds
       THEN /\ Len(RmwsEmitted) = 2
            /\ FloatRmw(RmwsEmitted[1], PosOp, "fcmpOGE")
            /\ FloatRmw(RmwsEmitted[2], NegOp, "fcmpOLT")
            /\ out.vals[1].ir.op = "select"
            /\ out.vals[1].ir.args[2] = RmwsEmitted[1]
            /\ out.vals[1].ir.args[3] = RmwsEmitted[2]
       ELSE /\ Len(RmwsEmitted) = 1
            /\ out.vals[1].ir = RmwsEmitted[1]
            /\ RmwsEmitted[1].attr =
                 IF call.b.ty.sn = SIGNED
                 THEN (IF call.op = "atomic_max" THEN "Max" ELSE "Min")
                 ELSE (IF call.op = "atomic_max" THEN "UMax" ELSE "UMin")

\* the user-caused violations of the claim
BroadcastViolation ==
  \/ /\ call.op = "broadcast"
     /\ is_block_ty(call.a.ty) /\ is_block_ty(call.b.ty)
     /\ ~Compatible(get_block_shapes(call.a.ty), get_block_shapes(call.b.ty))
  \/ /\ call.op = "broadcast_shape"
     /\ is_block_ty(call.a.ty)
     /\ Len(get_block_shapes(call.a.ty)) # Len(call.shape)
CacheModifierViolation ==
  /\ call.op = "load" /\ is_pointer_ty(get_scalar_ty(call.a.ty))
  /\ call.attr \notin {"", ".ca", ".cg"}
OtherWithoutMaskViolation ==
  /\ call.op = "load" /\ is_pointer_ty(get_scalar_ty(call.a.ty))
  /\ call.attr \in {"", ".ca", ".cg"}
  /\ call.b = NoVal /\ call.c # NoVal
ReshapeViolation ==
  /\ call.op = "reshape"
  /\ Product(get_block_shapes(call.a.ty)) # Product(call.shape)
HintViolation ==
  /\ call.op \in {"multiple_of", "max_contiguous"}
  /\ call.a.ir.op \in {"input", "const"}
UserViolation ==
  \/ BroadcastViolation \/ CacheModifierViolation \/ OtherWithoutMaskViolation
  \/ ReshapeViolation \/ HintViolation

\* C18: each of these user-caused violations is reported to the caller as
\* a SemanticError and not as another kind of error: incompatible shapes or
\* mismatched ranks in broadcast, an unsupported cache modifier in load,
\* `other` given without `mask` in load, a reshape to a different number of
\* elements, and multiple_of / max_contiguous on a value that is not an
\* instruction.
C18_ViolationsAreSemanticErrors ==
  (UserViolation /\ out # NoOut) => out.err = SemanticError

\* the call broadcast(v, shape) on a block v has returned or thrown
BroadcastShapeDone ==
  /\ call.op = "broadcast_shape" /\ out # NoOut
  /\ is_block_ty(call.a.ty)

\* rank(v) = rank(shape) and every dimension of v equals the target's or 1
Extendable(src_shape, shape) ==
  /\ Len(src_shape) = Len(shape)
  /\ \A i \in 1..Len(shape) : src_shape[i] = shape[i] \/ src_shape[i] = 1

\* C20: broadcast(v, shape) on a block v succeeds only when rank(v) =
\* rank(shape) and every dimension of v equals shape[i] or 1; for any other
\* block input (rank mismatch, or a dimension that is neither 1 nor the
\* target's) it fails with an error and emits no broadcast instruction.
C20_ShapeTargetedBroadcast ==
  BroadcastShapeDone =>
    IF Extendable(get_block_shapes(call.a.ty), call.shape)
    THEN TRUE
    ELSE /\ out.err # "none"
         /\ \A i \in 1..Len(out.em) : out.em[i].op # "broadcast"

\* the records of the look-ups among the calls made on the context
LookupRecords == {i \in DOMAIN lookups : lookups[i].sn # "given"}
\* the key a look-up asks for: its IR type with the signedness given, SIGNED
\* when none is given
LookupKey(l) == <<l.irty, IF l.sn = "default" THEN SIGNED ELSE l.sn>>

\* same key, identical type; different keys, distinct types
CanonicalTypes ==
  \A i \in LookupRecords, j \in LookupRecords :
    (LookupKey(lookups[i]) = LookupKey(lookups[j])) <=> (lookups[i].ty.id = lookups[j].ty.id)
\* a look-up or create_value without a signedness gives a SIGNED type, and
\* the value created holds that type
DefaultIsSigned ==
  \A i \in LookupRecords :
    lookups[i].sn = "default" =>
      /\ lookups[i].ty.ty.sn = SIGNED
      /\ lookups[i].op = "create_value" =>
            \E n \in DOMAIN ast_values_ :
              ast_values_[n].ir.ty = lookups[i].irty /\ ast_values_[n].ty = lookups[i].ty
\* no call changes the type the map holds under a key
TypesKept == \A e \in ast_types_ : e \in ast_types_'

\* C19: after any sequence of type look-ups and create_value calls on one
\* context, two look-ups with the same (IR type, signedness) key return the
\* identical type, two look-ups with different keys (the same IR type with
\* different signedness included) return distinct types, a look-up never
\* changes the type returned for another key, and a look-up or create_value
\* without a signedness uses SIGNED.
C19_CanonicalTypes == [](CanonicalTypes /\ DefaultIsSigned) /\ [][TypesKept]_vars

\* the same IR type looked up SIGNED, then UNSIGNED, then by create_value
\* without a type: the first and the third are one type, the second another
C19_Witness ==
  /\ Len(lookups) = 3
  /\ lookups[1].sn = SIGNED /\ lookups[2].sn = UNSIGNED
  /\ lookups[3].op = "create_value" /\ lookups[3].sn = "default"
  /\ lookups[1].irty = lookups[2].irty /\ lookups[2].irty = lookups[3].irty
  /\ lookups[1].ty.id = lookups[3].ty.id /\ lookups[1].ty.id # lookups[2].ty.id
  /\ Len(ast_values_) = 1 /\ ast_values_[1].ty = lookups[1].ty

\* the pairwise broadcast has returned or thrown
BroadcastDone == call.op = "broadcast" /\ out # NoOut

\* the instructions emitted that equal inst
Emitted(inst) == {i \in DOMAIN out.em : out.em[i] = inst}

\* one side of a (block, block) broadcast to the common shape S: left alone
\* when its shape is S, otherwise the result of its one broadcast instruction
SideBroadcast(v, ret, S) ==
  IF get_block_shapes(v.ty) = S
  THEN /\ ret = v
       /\ \A i \in DOMAIN out.em : out.em[i].args # <<v.ir>>
  ELSE /\ ret.ir = IrVal("broadcast", <<v.ir>>, IrTy(v.ir.ty.elem, S), "")
       /\ Cardinality(Emitted(ret.ir)) = 1
       /\ \A i \in DOMAIN out.em : out.em[i].args = <<v.ir>> => out.em[i] = ret.ir

\* C21: the pairwise broadcast leaves alone what needs no change: for
\* (scalar, scalar) both inputs are returned unchanged and nothing is
\* emitted; for (block, block) a side whose shape is the common shape is
\* returned as the same value with no instruction, a side whose shape differs
\* receives exactly one broadcast instruction; when the shapes are
\* incompatible the error is raised before any instruction is emitted.
C21_BroadcastFrame ==
  BroadcastDone =>
    LET la == get_block_shapes(call.a.ty)
        lb == get_block_shapes(call.b.ty)
        S  == [i \in DOMAIN la |-> Max({la[i], lb[i]})]
    IN  /\ (~is_block_ty(call.a.ty) /\ ~is_block_ty(call.b.ty)) =>
             /\ out.err = "none"
             /\ out.vals = <<call.a, call.b>>
             /\ out.em = <<>>
        /\ (is_block_ty(call.a.ty) /\ is_block_ty(call.b.ty) /\ Compatible(la, lb)) =>
             /\ out.err = "none"
             /\ SideBroadcast(call.a, out.vals[1], S)
             /\ SideBroadcast(call.b, out.vals[2], S)
             /\ \A i \in DOMAIN out.em : out.em[i].op = "broadcast"
        /\ (is_block_ty(call.a.ty) /\ is_block_ty(call.b.ty) /\ ~Compatible(la, lb)) =>
             /\ out.err # "none"
             /\ out.em = <<>>

\* broadcast(block[1,MaxDim], block[MaxDim,1]): two broadcasts to
\* [MaxDim,MaxDim]
C21_Witness ==
  /\ BroadcastDone
  /\ get_block_shapes(call.a.ty) = <<1, MaxDim>>
  /\ get_block_shapes(call.b.ty) = <<MaxDim, 1>>
  /\ Len(out.em) = 2
  /\ out.em[1].ty.shape = <<MaxDim, MaxDim>> /\ out.em[2].ty.shape = <<MaxDim, MaxDim>>

\* a binary operator was called with a pointer operand, on shapes that can
\* be broadcast together
PointerOperandCall ==
  /\ call.op \in BinaryOps /\ out # NoOut
  /\ Broadcastable(call.a, call.b)
  /\ is_pointer_ty(get_scalar_ty(call.a.ty)) \/ is_pointer_ty(get_scalar_ty(call.b.ty))

\* pointer + integer, integer + pointer, pointer - integer
AcceptedPointerCall ==
  LET ta == get_scalar_ty(call.a.ty)
      tb == get_scalar_ty(call.b.ty)
  IN  \/ call.op \in {"add", "sub"} /\ is_pointer_ty(ta) /\ is_integer_ty(tb)
      \/ call.op = "add" /\ is_integer_ty(ta) /\ is_pointer_ty(tb)

\* C22: a pointer operand of a binary operator is rejected with SemanticError
\* on a side the operator does not allow (any side of mul, truediv, floordiv,
\* mod, the bitwise ops and the comparisons; the right side of sub), when
\* both operands are pointers whether or not the pointee types match, and
\* when the other operand is floating; only pointer + integer, integer +
\* pointer and pointer - integer are accepted.
C22_PointerOperands ==
  PointerOperandCall =>
    IF AcceptedPointerCall THEN out.err = "none" ELSE out.err = SemanticError

\* the first cast of the call has returned or thrown
FirstCastDone ==
  /\ call.op = "cast" /\ out # NoOut
  /\ Len(out.vals) = 0 \/ (Len(out.vals) = 1 /\ out.err = "none")

\* a scalar integer source and an integer destination that differ in width
\* or in signedness
IntegerCastCase ==
  /\ FirstCastDone
  /\ ~is_block_ty(call.a.ty)
  /\ call.a.ty.elem.k = "int" /\ call.dst.elem.k = "int"
  /\ call.a.ty.elem.w # call.dst.elem.w \/ call.a.ty.sn # call.dst.sn

\* C23: cast between two integer scalar types that differ in width or in
\* signedness emits exactly one int_cast whose sign-extend flag is set iff
\* the source type is signed and is not int1; an unsigned source and an int1
\* source are zero-extended, and a cast to int1 takes this int_cast path and
\* not a compare with zero.
C23_IntCast ==
  IntegerCastCase =>
    /\ out.err = "none"
    /\ out.em = <<IrVal("int_cast", <<call.a.ir>>, IrTy(IntIr(call.dst.elem.w), <<>>),
                        IF call.a.ty.sn = SIGNED /\ call.a.ty.elem.w # 1 THEN "sext" ELSE "zext")>>
    /\ out.vals[1].ir = out.em[1]
    /\ out.vals[1].ty = call.dst

\* a signed integer wider than one bit was cast to int1
C23_Witness ==
  /\ IntegerCastCase
  /\ call.a.ty.sn = SIGNED /\ call.a.ty.elem.w > 1
  /\ call.dst.elem.w = 1
  /\ out.em[1].attr = "sext"

\* the cast of a block source to a scalar destination type has returned
BlockCastReturned ==
  /\ FirstCastDone /\ out.err = "none"
  /\ is_block_ty(call.a.ty)

\* C24: for a block source v and a scalar destination type dst, cast(v, dst)
\* returns a value whose frontend type is the block of dst (its kind, width
\* and signedness) with v's shape, and returns v itself, emitting nothing,
\* only when v's element type is identical to dst.
C24_BlockCast ==
  BlockCastReturned =>
    /\ out.vals[1].ty = get_block_ty(call.dst, get_block_shapes(call.a.ty))
    /\ out.vals[1] = call.a => get_scalar_ty(call.a.ty) = call.dst

\* load has returned or thrown, with a cache modifier that is supported
LoadDone == call.op = "load" /\ out # NoOut /\ call.attr \in {"", ".ca", ".cg"}
LoadOfPointer == LoadDone /\ is_pointer_ty(get_scalar_ty(call.a.ty))

\* the load instructions emitted
LoadsEmitted == {i \in DOMAIN out.em : out.em[i].op \in {"load", "masked_load"}}

\* the element type loaded: the pointee, int8 standing for a bool pointee
LoadedElem(t) ==
  IF get_scalar_ty(t).elem.pt = [k |-> "int", w |-> 1]
  THEN [k |-> "int", w |-> 8, pt |-> NoPt, as |-> 0]
  ELSE [k |-> get_scalar_ty(t).elem.pt.k, w |-> get_scalar_ty(t).elem.pt.w, pt |-> NoPt, as |-> 0]

\* the off-lane value of a masked load without `other`: an undef value of the
\* pointee type, splatted to the shape of a block pointer
UndefOther(v, t) ==
  IF is_block_ty(t)
  THEN v = IrVal("splat", <<undef_value(IrTy(LoadedElem(t), <<>>))>>,
                 IrTy(LoadedElem(t), get_block_shapes(t)), "")
  ELSE v = undef_value(IrTy(LoadedElem(t), <<>>))

\* C25: load chooses its instruction from the presence of mask and other:
\* with neither it emits a plain load; with other and no mask it fails and
\* emits no load; with a mask it emits a masked load whose off-lane value is
\* other, or an undef value of the pointee type (splatted to the pointer's
\* shape for a block pointer) when other is absent. A ptr that is no pointer
\* fails with SemanticError before anything is emitted.
C25_LoadChoice ==
  /\ (LoadDone /\ ~is_pointer_ty(get_scalar_ty(call.a.ty))) =>
       out.err = SemanticError /\ out.em = <<>>
  /\ (LoadOfPointer /\ call.b = NoVal /\ call.c = NoVal) =>
       /\ out.err = "none"
       /\ Cardinality(LoadsEmitted) = 1
       /\ out.em[Len(out.em)].op = "load"
       /\ out.vals[1].ir = out.em[Len(out.em)]
       /\ DerivedFrom(out.em[Len(out.em)].args[1], "a")
  /\ (LoadOfPointer /\ call.b = NoVal /\ call.c # NoVal) =>
       out.err # "none" /\ LoadsEmitted = {}
  /\ (LoadOfPointer /\ call.b # NoVal) =>
       /\ out.err = "none"
       /\ Cardinality(LoadsEmitted) = 1
       /\ out.em[Len(out.em)].op = "masked_load"
       /\ out.vals[1].ir = out.em[Len(out.em)]
       /\ DerivedFrom(out.em[Len(out.em)].args[1], "a")
       /\ DerivedFrom(out.em[Len(out.em)].args[2], "b")
       /\ IF call.c # NoVal
          THEN DerivedFrom(out.em[Len(out.em)].args[3], "c")
          ELSE UndefOther(out.em[Len(out.em)].args[3], call.a.ty)

\* a masked load through a block pointer without `other`
C25_Witness ==
  /\ LoadOfPointer /\ is_block_ty(call.a.ty)
  /\ call.b # NoVal /\ call.c = NoVal
  /\ out.err = "none"
  /\ out.em[Len(out.em)].op = "masked_load"
  /\ out.em[Len(out.em)].args[3].op = "splat"

\* dot has returned or ended
DotDone == call.op = "dot" /\ out # NoOut

\* two blocks of shapes [M,K] and [K,N]
DotShapes ==
  /\ Len(get_block_shapes(call.a.ty)) = 2 /\ Len(get_block_shapes(call.b.ty)) = 2
  /\ get_block_shapes(call.a.ty)[2] = get_block_shapes(call.b.ty)[1]

\* C26: dot(lhs, rhs) accepts only two block operands of shapes [M,K] and
\* [K,N] with equal K, and emits a matmul whose accumulator is a {M,N} splat
\* of fp32 zero if lhs or rhs has a floating element type, of int32 zero
\* only when both are integer.
C26_Dot ==
  DotDone =>
    IF DotShapes
    THEN /\ out.err = "none"
         /\ out.vals[1].ir.op = "dot"
         /\ out.vals[1].ir.args[1] = call.a.ir /\ out.vals[1].ir.args[2] = call.b.ir
         /\ out.vals[1].ir.args[3] =
              LET zero == IF call.a.ty.elem.k = "int" /\ call.b.ty.elem.k = "int"
                          THEN get_int32("0") ELSE get_float32("0")
              IN  IrVal("splat", <<zero>>,
                        IrTy(zero.ty.elem, <<get_block_shapes(call.a.ty)[1],
                                             get_block_shapes(call.b.ty)[2]>>), "")
    ELSE out.err # "none"

\* a reduction has returned or thrown
ReduceDone == call.op \in ReduceOps /\ out # NoOut

\* the reduce instructions emitted
ReducesEmitted == {i \in DOMAIN out.em : out.em[i].op = "reduce"}

\* the op of the reduction for floats and for integers
FloatReduceOp == [sum |-> "FADD", min |-> "FMIN", max |-> "FMAX", xor_sum |-> "XOR"]
IntReduceOp == [sum |-> "ADD", min |-> "MIN", max |-> "MAX", xor_sum |-> "XOR"]

\* the op a reduce instruction holds
OpOfReduce(inst) == CHOOSE op \in {"FADD", "FMIN", "FMAX", "ADD", "MIN", "MAX", "XOR"} :
                      \E a \in 0..MaxRank : inst.attr = ReduceAttr(op, a)

\* C27: sum, min, max and xor_sum first widen an input whose element type is
\* an integer of at most 32 bits to int32 (64-bit integers and floats are
\* left as they are), then emit one reduce with the op of the element
\* category: FADD/FMIN/FMAX for floats, ADD/MIN/MAX/XOR for integers; xor_sum
\* on an input that is not an integer fails with SemanticError before
\* anything is emitted.
C27_Reductions ==
  /\ (ReduceDone /\ call.op = "xor_sum" /\ call.a.ty.elem.k # "int") =>
       out.err = SemanticError /\ out.em = <<>>
  /\ (ReduceDone /\ call.a.ty.elem.k \in FloatKinds /\ call.op # "xor_sum") =>
       /\ out.err = "none"
       /\ out.em = <<out.vals[1].ir>>
       /\ out.vals[1].ir.op = "reduce" /\ out.vals[1].ir.args = <<call.a.ir>>
       /\ OpOfReduce(out.vals[1].ir) = FloatReduceOp[call.op]
  /\ (ReduceDone /\ call.a.ty.elem.k = "int") =>
       /\ out.err = "none"
       /\ Cardinality(ReducesEmitted) = 1
       /\ out.vals[1].ir = out.em[Len(out.em)]
       /\ out.vals[1].ir.op = "reduce"
       /\ OpOfReduce(out.vals[1].ir) = IntReduceOp[call.op]
       /\ LET operand == out.vals[1].ir.args[1]
          IN  IF call.a.ty.elem.w >= 32
              THEN /\ operand.ty = call.a.ir.ty
                   /\ operand = call.a.ir \/ (operand.op = "int_cast" /\ operand.args = <<call.a.ir>>)
              ELSE /\ operand.op = "int_cast" /\ operand.args = <<call.a.ir>>
                   /\ operand.ty = IrTy(IntIr(32), get_block_shapes(call.a.ty))
                   /\ out.em = <<operand, out.vals[1].ir>>

\* the minimum of a block of 8-bit integers: an int_cast to int32, then MIN
C27_Witness ==
  /\ ReduceDone /\ call.op = "min"
  /\ call.a.ty.elem.k = "int" /\ call.a.ty.elem.w = 8
  /\ Len(out.em) = 2 /\ out.em[1].op = "int_cast" /\ out.em[2].op = "reduce"

(***************************************************************************)
(*                  Further properties of the inliner                      *)
(***************************************************************************)
\* the instructions of the functions that remain in the module
RemainingInsts == Range(AllInsts(fnlist, fnBlocks, blk))

\* C28: after inliner::run on a module with an acyclic call graph no
\* function remaining in the module contains a call instruction whose callee
\* was removed: each inlined call instruction is gone from its exit block and
\* every use of its result refers to the exit phi.
C28_NoCallToRemoved ==
  pc = "done" =>
    /\ \A i \in RemainingInsts : i.op = "call" => i.callee \in Range(fnlist)
    /\ \A k \in DOMAIN log :
         log[k].caller \in Range(fnlist) =>
           /\ \A i \in RemainingInsts : i.id # log[k].callsite
           /\ \A i \in RemainingInsts : VInst(log[k].callsite) \notin Range(i.ops)

\* the list of call sites of the callee being processed is left as it is
\* while the inner loop of run iterates over it
SitesNotExtended ==
  (pc = "loop" /\ pc' = "loop" /\ cur' = cur) => callsites'[cur] = callsites[cur]

\* the key the outer loop of run goes on with was not visited before: the
\* callee of a visited key has been removed from the module
KeyVisitedOnce ==
  ((cur' # cur \/ fnlist' # fnlist) /\ cur' # NoFn) => cur' \in Range(fnlist')

\* C29: inliner::run terminates on every module whose call graph is
\* acyclic: the list of call sites of the callee being processed is never
\* extended while it is iterated, and each callee key of the map is visited
\* at most once.
C29_RunTerminates ==
  /\ <>(pc = "done")
  /\ [][SitesNotExtended]_vars
  /\ [][KeyVisitedOnce]_vars

\* run has returned after inlining F, whose body calls G: the clone of that
\* call was appended to the list of G while the list of F was iterated
C29_Witness ==
  /\ pc = "done"
  /\ \E k \in DOMAIN log :
       /\ log[k].fn = "F"
       /\ "G" \in DOMAIN callsites
       /\ \E m \in DOMAIN log[k].map : log[k].map[m].new \in Range(callsites["G"])

(***************************************************************************)
(*                    Further properties of comparisons                    *)
(***************************************************************************)
ComparisonOps ==
  {"equal", "not_equal", "less_than", "less_equal", "greater_than", "greater_equal"}

\* a comparison has returned a value
ComparisonReturned ==
  /\ call.op \in ComparisonOps /\ out # NoOut
  /\ out.err = "none" /\ Len(out.vals) = 1

\* the shape the two operands of the call are brought to
OperandsShape ==
  IF is_block_ty(call.a.ty) /\ is_block_ty(call.b.ty)
  THEN CommonShape(get_block_shapes(call.a.ty), get_block_shapes(call.b.ty))
  ELSE IF is_block_ty(call.a.ty) THEN get_block_shapes(call.a.ty)
  ELSE get_block_shapes(call.b.ty)

\* C30: the value returned by each comparison operator (equal, not_equal,
\* less_than, less_equal, greater_than, greater_equal) has a frontend type
\* whose scalar type is boolean (int1), with the operands' common shape,
\* whatever the operand types are.
C30_ComparisonIsBoolean ==
  ComparisonReturned =>
    /\ get_scalar_ty(out.vals[1].ty) = get_int1_ty
    /\ get_block_shapes(out.vals[1].ty) = OperandsShape

====
